---- MODULE Spec2Model ----
(***************************************************************************)
(* Verification model of the BAIS inventory tooling:                       *)
(*   - the demo data generator (00_generate_editable_seed_spreadsheet.py), *)
(*   - the notebook GraphBuilder neighbourhood filter (graph.py),          *)
(*   - the dashboard filter apply_filters (streamlit_app.py).              *)
(*                                                                         *)
(* Text that the code searches or parses (FQDNs, location names, search    *)
(* terms) is a sequence of one-character strings, so that "x in s",        *)
(* formatting and regular-expression parsing are computed, not assumed.    *)
(* Ratios are kept in percent (0.3 is 30); the pseudo random generator is a *)
(* seeded deterministic stream, as Python's random module is.              *)
(***************************************************************************)
EXTENDS Integers, Sequences, FiniteSets, TLC

VARIABLES
    \* ---- command line of the generator (main) ----
    scale, problem_ratio, pending_ratio, app_concentration, arg_seed, randomize,
    \* ---- DemoDataGenerator object ----
    seed, rng, components, relationships, problems_created, good_patterns_created,
    component_id_counter, relationship_id_counter, mac_counter,
    \* ---- position of the run inside generate_excel, loop index, wall clock ----
    pc, idx, clock,
    \* ---- locals of generate_relationships (component ids grouped by kind) ----
    groups,
    \* ---- output of the first run of the generator and number of the run (1, 2) ----
    prev, run,
    \* ---- GraphBuilder.apply_neighborhood_filter: arguments and returned tuple ----
    nodes, edges, search_term, filtered_nodes, filtered_edges,
    \* ---- apply_filters: arguments and returned tuple ----
    components_df, relationships_df, filters, all_visible_components, filtered_relationships,
    \* ---- recreate_schemas_refresh_users.py: command line, .env, operator's answer,
    \*      validated list, SQL file sections, statements executed, schemas in the database
    args, allowed_schemas, response, schemas_to_recreate, sections, executed, db_schemas,
    \* ---- DatabaseConnection: fields and the queries sent to the cursor ----
    connection, current_schema, formatted_queries,
    \* ---- GraphBuilder.create_graph_data: arguments (the tuple returned is nodes, edges) ----
    data, show_dependencies, show_peer,
    \* ---- create_network_graph / export_graph_json: the networkx graph and the export ----
    G, graph_json

cliVars == <<scale, problem_ratio, pending_ratio, app_concentration, arg_seed, randomize>>
genVars == <<seed, rng, components, relationships, problems_created, good_patterns_created,
             component_id_counter, relationship_id_counter, mac_counter, groups>>
graphVars == <<nodes, edges, search_term, filtered_nodes, filtered_edges>>
filterVars == <<components_df, relationships_df, filters, all_visible_components,
                filtered_relationships>>
viewVars == <<graphVars, filterVars>>
scriptVars == <<args, allowed_schemas, response, schemas_to_recreate, sections, executed,
                db_schemas>>
connVars == <<connection, current_schema, formatted_queries>>
dataVars == <<data, show_dependencies, show_peer>>
exportVars == <<G, graph_json>>
restVars == <<scriptVars, connVars, dataVars, exportVars>>
\* everything but the generator
toolVars == <<viewVars, restVars>>
vars == <<cliVars, genVars, pc, idx, clock, prev, run, viewVars, restVars>>

(***************************************************************************)
(* Bounds of the model.                                                    *)
(***************************************************************************)
NumSeeds == 1              \* explicit --seed values are 0 .. NumSeeds-1
MaxClock == 2              \* wall clock values (seconds) are 1 .. MaxClock
NumSweepSeeds == 20        \* seeds 0 .. NumSweepSeeds-1 of the sweep over seeds
NumNodes == 4              \* nodes handed to apply_neighborhood_filter
MaxEdges == 2              \* edges handed to apply_neighborhood_filter
NumRows == 3               \* rows of components_df
MaxRelationships == 2      \* rows of relationships_df
MaxQueries == 3            \* queries sent through one DatabaseConnection

(***************************************************************************)
(* Text helpers.                                                           *)
(***************************************************************************)
None == <<>>           \* Python None / a missing dictionary key

\* Python "needle in hay" on strings
Contains(needle, hay) ==
    \E i \in 1..(Len(hay) - Len(needle) + 1) :
        SubSeq(hay, i, i + Len(needle) - 1) = needle

Digit(d) == <<"0", "1", "2", "3", "4", "5", "6", "7", "8", "9">>[d + 1]

RECURSIVE Decimal(_)
\* str(n) for n >= 0
Decimal(n) == IF n < 10 THEN <<Digit(n)>> ELSE Decimal(n \div 10) \o <<Digit(n % 10)>>

\* f"{n:02d}"
Fmt02d(n) == IF n < 10 THEN <<"0">> \o Decimal(n) ELSE Decimal(n)

IsDigit(c) == c \in {"0", "1", "2", "3", "4", "5", "6", "7", "8", "9"}

UpperCase == <<"A", "B", "C", "D", "E", "F", "G", "H", "I", "J", "K", "L", "M", "N", "O", "P", "Q", "R", "S", "T", "U", "V", "W", "X", "Y", "Z">>
LowerCase == <<"a", "b", "c", "d", "e", "f", "g", "h", "i", "j", "k", "l", "m", "n", "o", "p", "q", "r", "s", "t", "u", "v", "w", "x", "y", "z">>

ToLower ==
    [c \in { UpperCase[k] : k \in 1..Len(UpperCase) } |->
        LowerCase[CHOOSE k \in 1..Len(UpperCase) : UpperCase[k] = c]]

\* str.lower()
Lower(s) == [i \in 1..Len(s) |-> IF s[i] \in DOMAIN ToLower THEN ToLower[s[i]] ELSE s[i]]

(***************************************************************************)
(* The random module: a seeded deterministic stream.  A state is a number  *)
(* in 1..RandDen; random.random() advances it and returns (state-1)/RandDen*)
(***************************************************************************)
RandDen == 65536
RandMod == 65537
RandMul == 75

SeedRng(s) == (((s % RandDen) * 25173 + 13849) % RandDen) + 1

NextRng(s) == (RandMul * s) % RandMod

\* random.random(): v is the numerator of a float in [0,1) over RandDen
Random(s) == [v |-> NextRng(s) - 1, rng |-> NextRng(s)]

\* random.randint(a, b), both ends included
RandInt(s, a, b) ==
    LET r == Random(s) IN [v |-> a + ((r.v * (b - a + 1)) \div RandDen), rng |-> r.rng]

\* random.choice(seq)
Choice(s, seq) ==
    LET r == Random(s) IN [v |-> seq[1 + ((r.v * Len(seq)) \div RandDen)], rng |-> r.rng]

RemoveAt(seq, j) == SubSeq(seq, 1, j - 1) \o SubSeq(seq, j + 1, Len(seq))

RECURSIVE Sample(_, _, _)
\* random.sample(population, k): k distinct elements, in random order
Sample(s, population, k) ==
    IF k = 0 THEN [v |-> <<>>, rng |-> s]
    ELSE LET j == RandInt(s, 1, Len(population))
             rest == Sample(j.rng, RemoveAt(population, j.v), k - 1)
         IN  [v |-> <<population[j.v]>> \o rest.v, rng |-> rest.rng]

\* random.random() < ratio and random.random() > ratio, the ratio in percent
RandomLess(v, percent) == v * 100 < percent * RandDen
RandomMore(v, percent) == v * 100 > percent * RandDen

Min(a, b) == IF a < b THEN a ELSE b

(***************************************************************************)
(* Reference data loaded from the database by load_reference_data.         *)
(***************************************************************************)
\* list(self.physical_locations.keys())
locations ==
    << <<"D", "C", "0", "1", "_", "A", "L">>,
       <<"D", "C", "0", "2", "_", "N", "C">>,
       <<"D", "C", "0", "3", "_", "V", "A">> >>

\* self.physical_locations: location_name -> physical_location_id
physical_locations(location_name) ==
    CHOOSE i \in 1..Len(locations) : locations[i] = location_name

component_types == {"application", "polyglot_persistence", "block_level_persistence", "networking"}

relationship_types ==
    {"replicates_from", "fails_over_to", "consumes_api_from", "persists_to", "publishes_to",
     "subscribes_to", "proxied_by", "authenticates_via", "monitors", "collaborates_with",
     "peers_with", "vm_guest_of", "load_balanced_by", "communicates_with"}

statuses == {"OPERATIONAL", "DEGRADED"}

(***************************************************************************)
(* DemoDataGenerator.__init__: configuration tables.                       *)
(***************************************************************************)
\* self.scale_configs[scale]; the ratios are kept in percent
scale_configs(s) ==
    [total_components |-> CASE s = "small" -> 50 [] s = "medium" -> 200 [] s = "large" -> 500,
     app_ratio |-> 60, db_ratio |-> 12, cache_ratio |-> 8, mq_ratio |-> 5,
     storage_ratio |-> 8, lb_ratio |-> 4, other_ratio |-> 3]

\* self.concentration_configs[app_concentration]
concentration_configs(c) ==
    CASE c = "low" -> [min |-> 3, max |-> 5]
      [] c = "medium" -> [min |-> 8, max |-> 12]
      [] c = "high" -> [min |-> 15, max |-> 20]

\* int(total * ratio) for a ratio given in percent
IntOfRatio(total, percent) == (total * percent) \div 100

(***************************************************************************)
(* Helpers of create_component.                                            *)
(***************************************************************************)
get_dc_code(location_name) ==
    IF Contains(<<"D", "C", "0", "1">>, location_name) \/ Contains(<<"A", "L">>, location_name)
    THEN <<"d", "c", "0", "1">>
    ELSE IF Contains(<<"D", "C", "0", "2">>, location_name) \/ Contains(<<"N", "C">>, location_name)
    THEN <<"d", "c", "0", "2">>
    ELSE IF Contains(<<"D", "C", "0", "3">>, location_name) \/ Contains(<<"V", "A">>, location_name)
    THEN <<"d", "c", "0", "3">>
    ELSE <<"d", "c", "0", "1">>

\* any(x in fqdn for x in needles)
AnyIn(needles, fqdn) == \E x \in needles : Contains(x, fqdn)

AppNeedles == { <<"a", "p", "p">>, <<"w", "e", "b">>, <<"p", "o", "r", "t", "a", "l">>,
                <<"m", "o", "b", "i", "l", "e">>, <<"a", "p", "i">> }
StorageNeedles == { <<"n", "a", "s">>, <<"s", "a", "n">>, <<"m", "i", "n", "i", "o">>,
                    <<"o", "b", "j">> }

\* the IP address "10.<dc>.<subnet>.<host>" is the tuple <<10, dc, subnet, host>>
get_ip_for_location_and_type(location_name, component_fqdn, s) ==
    LET dc_num == IF Contains(<<"D", "C", "0", "1">>, location_name)
                     \/ Contains(<<"A", "L">>, location_name) THEN 1
                  ELSE IF Contains(<<"D", "C", "0", "2">>, location_name)
                     \/ Contains(<<"N", "C">>, location_name) THEN 2
                  ELSE IF Contains(<<"D", "C", "0", "3">>, location_name)
                     \/ Contains(<<"V", "A">>, location_name) THEN 3
                  ELSE 1
        subnet ==
            IF AnyIn(AppNeedles, component_fqdn) THEN RandInt(s, 10, 20)
            ELSE IF AnyIn({<<"d", "b">>, <<"d", "a", "t", "a", "b", "a", "s", "e">>}, component_fqdn)
            THEN RandInt(s, 30, 40)
            ELSE IF AnyIn({<<"r", "e", "d", "i", "s">>, <<"c", "a", "c", "h", "e">>}, component_fqdn)
            THEN RandInt(s, 35, 45)
            ELSE IF AnyIn({<<"k", "a", "f", "k", "a">>, <<"m", "q">>}, component_fqdn)
            THEN RandInt(s, 50, 60)
            ELSE IF AnyIn(StorageNeedles, component_fqdn) THEN RandInt(s, 70, 80)
            ELSE IF Contains(<<"l", "b">>, component_fqdn) THEN RandInt(s, 5, 9)
            ELSE RandInt(s, 90, 99)
        host == RandInt(subnet.rng, 10, 250)
    IN  [v |-> <<10, dc_num, subnet.v, host.v>>, rng |-> host.rng]

get_vlan_for_type(component_fqdn, s) ==
    IF AnyIn(AppNeedles, component_fqdn) THEN RandInt(s, 100, 199)
    ELSE IF AnyIn({<<"d", "b">>, <<"r", "e", "d", "i", "s">>, <<"c", "a", "c", "h", "e">>},
                  component_fqdn)
    THEN RandInt(s, 200, 299)
    ELSE IF AnyIn(StorageNeedles, component_fqdn) THEN RandInt(s, 300, 399)
    ELSE IF Contains(<<"l", "b">>, component_fqdn) THEN RandInt(s, 10, 20)
    ELSE RandInt(s, 100, 199)

get_port_for_type(component_fqdn) ==
    IF AnyIn({<<"r", "e", "d", "i", "s">>, <<"c", "a", "c", "h", "e">>}, component_fqdn) THEN 6379
    ELSE IF AnyIn({<<"k", "a", "f", "k", "a">>, <<"m", "q">>}, component_fqdn) THEN 9092
    ELSE IF Contains(<<"d", "b">>, component_fqdn) THEN 5432
    ELSE IF AnyIn({<<"n", "a", "s">>, <<"n", "f", "s">>}, component_fqdn) THEN 2049
    ELSE IF Contains(<<"s", "a", "n">>, component_fqdn) THEN 3260
    ELSE IF AnyIn({<<"m", "i", "n", "i", "o">>, <<"o", "b", "j">>}, component_fqdn) THEN 9000
    ELSE 443

\* f"00:1B:44:11:3A:{mac_counter:02X}" is the tuple of its six octets
get_next_mac(counter) == <<0, 27, 68, 17, 58, counter>>

\* the placeholder values of a record that is pending discovery
PendingIp == <<0, 0, 0, 0>>
PendingMac == <<0, 0, 0, 0, 0, 0>>
PendingAppCode == <<"_PT_PENDING_">>
PendingText == "_PT_PENDING_"

\* f"APP{component_id_counter:03d}"
AppCode(counter) == <<"APP", counter>>

\* the pending decision taken against the wrong ratio
IsPendingProblemRatio(v) == RandomLess(v, problem_ratio)

\* is_pending = random.random() < self.pending_ratio
IsPending(v) == RandomLess(v, pending_ratio)

(***************************************************************************)
(* create_component: the record appended to self.components, with the      *)
(* generator state it leaves (random stream, MAC counter).  A component    *)
(* that has no 'fqdn' key carries fqdn = None.                             *)
(***************************************************************************)
create_component(fqdn, location_name, component_type_name, description, status_name, s, cid, macc) ==
    IF \A i \in 1..Len(locations) : locations[i] # location_name
    THEN [created |-> FALSE, rng |-> s, mac_counter |-> macc]
    ELSE IF component_type_name \notin component_types
    THEN [created |-> FALSE, rng |-> s, mac_counter |-> macc]
    ELSE
    LET status == IF status_name \notin statuses THEN "OPERATIONAL" ELSE status_name
        r_pending == Random(s)
        is_pending == IsPending(r_pending.v)
        base == [component_id |-> cid,
                 physical_location_id |-> physical_locations(location_name),
                 component_type |-> component_type_name,
                 ops_status |-> status]
        \* ---- complete record ----
        g_ip == get_ip_for_location_and_type(location_name, fqdn, r_pending.rng)
        g_vlan == get_vlan_for_type(fqdn, g_ip.rng)
        \* ---- pending discovery ----
        missing_level == Choice(r_pending.rng, <<"partial", "minimal">>)
        c_fqdn == Random(missing_level.rng)
        c_app == Random(c_fqdn.rng)
        c_desc == Random(c_app.rng)
        c_ip == Random(c_desc.rng)
        y_ip == IF RandomMore(c_ip.v, 30)
                THEN get_ip_for_location_and_type(location_name, fqdn, c_ip.rng)
                ELSE [v |-> PendingIp, rng |-> c_ip.rng]
        c_mac == Random(y_ip.rng)
        c_vlan == Random(c_mac.rng)
        y_vlan == IF RandomMore(c_vlan.v, 30)
                  THEN get_vlan_for_type(fqdn, c_vlan.rng)
                  ELSE [v |-> 1, rng |-> c_vlan.rng]
        c_port == Random(y_vlan.rng)
    IN  IF ~is_pending
        THEN [created |-> TRUE, component |->
                 base @@ [record_quality_grade |-> "_PT_GREEN_RECORD_",
                          fqdn |-> fqdn,
                          app_code |-> AppCode(cid),
                          description |-> [orphaned |-> FALSE, text |-> description],
                          ip |-> g_ip.v,
                          mac |-> get_next_mac(macc),
                          vlan |-> g_vlan.v,
                          port |-> get_port_for_type(fqdn)],
              rng |-> g_vlan.rng,
              mac_counter |-> macc + 1]
        ELSE IF missing_level.v = "minimal"
        THEN [created |-> TRUE, component |->
                 base @@ [record_quality_grade |-> "_PT_RED_RECORD_",
                          fqdn |-> None,
                          app_code |-> PendingAppCode,
                          description |-> [orphaned |-> FALSE, text |-> PendingText],
                          ip |-> PendingIp,
                          mac |-> PendingMac,
                          vlan |-> 1,
                          port |-> 1],
              rng |-> missing_level.rng,
              mac_counter |-> macc]
        ELSE [created |-> TRUE, component |->
                 base @@ [record_quality_grade |-> "_PT_YELLOW_RECORD_",
                          fqdn |-> IF RandomMore(c_fqdn.v, 50) THEN fqdn ELSE None,
                          app_code |-> IF RandomMore(c_app.v, 50)
                                       THEN AppCode(cid) ELSE PendingAppCode,
                          description |->
                              [orphaned |-> FALSE,
                               text |-> IF RandomMore(c_desc.v, 50)
                                        THEN description ELSE PendingText],
                          ip |-> y_ip.v,
                          mac |-> IF RandomMore(c_mac.v, 30)
                                  THEN get_next_mac(macc) ELSE PendingMac,
                          vlan |-> y_vlan.v,
                          port |-> IF RandomMore(c_port.v, 30)
                                   THEN get_port_for_type(fqdn) ELSE 1],
              rng |-> c_port.rng,
              mac_counter |-> IF RandomMore(c_mac.v, 30) THEN macc + 1 ELSE macc]

\* c.get('fqdn', default)
GetFqdn(c, default) == IF c.fqdn = None THEN default ELSE c.fqdn

\* self.component_map: the k-th component created has component_id k (the counter
\* starts at 1 and moves only when a component is appended), so the map is the list
\* indexed by id.
InComponentMap(comps, component_id) == component_id \in 1..Len(comps)

\* self.component_map[component_id]
component_map(comps, component_id) == comps[component_id]

(***************************************************************************)
(* create_relationship: self.relationships after the call.  The text of a  *)
(* description is f"{comp1_name} =[{rel_type_name}]=> {comp2_name}: " plus *)
(* the description passed in; the two names are functions of the ids, so   *)
(* the record keeps the passed description (and the number formatted into  *)
(* it, if any).                                                            *)
(***************************************************************************)
create_relationship(rels, comps, component_id, related_id, rel_type_name, description, n) ==
    IF rel_type_name \notin relationship_types THEN rels
    ELSE IF ~InComponentMap(comps, component_id) \/ ~InComponentMap(comps, related_id)
    THEN rels
    ELSE Append(rels, [relationship_id |-> Len(rels) + 1,
                       component_id |-> component_id,
                       related_component_id |-> related_id,
                       relationship_type |-> rel_type_name,
                       description |-> [text |-> description, n |-> n]])

(***************************************************************************)
(* main: the command line and the seed handed to the generator.            *)
(***************************************************************************)
NoSeed == -1           \* args.seed is None

\* the seed logic without its two deterministic branches
main_seed_always_random(rand, aseed) == NoSeed

\* main, "Handle seed logic": the seed argument of DemoDataGenerator (NoSeed for None)
main_seed(rand, aseed) ==
    IF rand THEN NoSeed
    ELSE IF aseed # NoSeed THEN aseed
    ELSE 42

\* DemoDataGenerator.__init__: self.seed; now is int(datetime.now().timestamp())
init_seed(seed_arg, now) == IF seed_arg # NoSeed THEN seed_arg ELSE now

Scales == {"small", "medium", "large"}
Concentrations == {"low", "medium", "high"}
ProblemRatios == {0, 30, 100}
PendingRatios == {0, 50, 100}

\* The command lines explored by Spec: the small scale with every other option.
CommandLines ==
    [scale : {"small"}, problem_ratio : ProblemRatios, pending_ratio : PendingRatios,
     app_concentration : Concentrations,
     arg_seed : {NoSeed} \cup (0..(NumSeeds - 1)), randomize : BOOLEAN]

NoOutput == [components |-> <<>>, relationships |-> <<>>]

\* The command lines explored by SpecScale: every scale with the default options.
DefaultCommandLines ==
    [scale : Scales, problem_ratio : {30}, pending_ratio : {0}, app_concentration : {"medium"},
     arg_seed : {NoSeed}, randomize : {FALSE}]

NoArgs == [recreate_schemas |-> <<>>, no_dry_run |-> FALSE, refresh_permissions |-> FALSE]
EmptyGraph == [nodes |-> <<>>, adj |-> <<>>]
NoData == [components |-> <<>>, relationships |-> <<>>]

\* the schema script, the database connection, the graph builder and the export not in use
RestIdle ==
    /\ args = NoArgs /\ allowed_schemas = <<>> /\ response = ""
    /\ schemas_to_recreate = <<>> /\ sections = {} /\ executed = <<>> /\ db_schemas = {}
    /\ connection = FALSE /\ current_schema = <<"d", "e", "m", "o">> /\ formatted_queries = <<>>
    /\ data = NoData /\ show_dependencies = TRUE /\ show_peer = TRUE
    /\ G = EmptyGraph /\ graph_json = [nodes |-> <<>>, edges |-> <<>>]

\* no graph and no dashboard filter in use
ViewIdle ==
    /\ nodes = <<>> /\ edges = <<>> /\ search_term = <<>>
    /\ filtered_nodes = <<>> /\ filtered_edges = <<>>
    /\ components_df = <<>> /\ relationships_df = <<>>
    /\ filters = [search_term |-> <<>>, env_filter |-> {}, status_filter |-> {},
                  type_filter |-> {}]
    /\ all_visible_components = <<>> /\ filtered_relationships = <<>>

InitWith(command_lines) ==
    /\ \E c \in command_lines :
          /\ scale = c.scale
          /\ problem_ratio = c.problem_ratio
          /\ pending_ratio = c.pending_ratio
          /\ app_concentration = c.app_concentration
          /\ arg_seed = c.arg_seed
          /\ randomize = c.randomize
    /\ clock = 1
    /\ seed = 0
    /\ rng = 1
    /\ components = <<>>
    /\ relationships = <<>>
    /\ problems_created = <<>>
    /\ good_patterns_created = <<>>
    /\ component_id_counter = 1
    /\ relationship_id_counter = 1
    /\ mac_counter = 1
    /\ groups = [apps |-> <<>>, dbs |-> <<>>, caches |-> <<>>, mqs |-> <<>>,
                 storages |-> <<>>, lbs |-> <<>>]
    /\ pc = "main"
    /\ idx = 1
    /\ prev = NoOutput
    /\ run = 1
    /\ ViewIdle
    /\ RestIdle

Init == InitWith(CommandLines)

InitScale == InitWith(DefaultCommandLines)

(***************************************************************************)
(* generate_components.                                                    *)
(***************************************************************************)
Phases == <<"apps", "dbs", "caches", "mqs", "storage", "lbs">>

\* app_count, db_count, ... of generate_components
target_count(phase) ==
    LET config == scale_configs(scale)
        total == config.total_components
    IN  CASE phase = "apps" -> IntOfRatio(total, config.app_ratio)
          [] phase = "dbs" -> IntOfRatio(total, config.db_ratio)
          [] phase = "caches" -> IntOfRatio(total, config.cache_ratio)
          [] phase = "mqs" -> IntOfRatio(total, config.mq_ratio)
          [] phase = "storage" -> IntOfRatio(total, config.storage_ratio)
          [] phase = "lbs" -> IntOfRatio(total, config.lb_ratio)

RECURSIVE PhaseFrom(_)
\* the first loop, from the k-th on, that has an iteration to run
PhaseFrom(k) ==
    IF k > Len(Phases) THEN "relationships"
    ELSE IF target_count(Phases[k]) >= 1 THEN Phases[k]
    ELSE PhaseFrom(k + 1)

PhaseIndex(phase) == CHOOSE k \in 1..Len(Phases) : Phases[k] = phase

\* main and DemoDataGenerator.__init__, up to the first loop of generate_components
Main ==
    /\ pc = "main"
    /\ seed' = init_seed(main_seed(randomize, arg_seed), clock)
    /\ rng' = SeedRng(seed')
    /\ components' = <<>>
    /\ relationships' = <<>>
    /\ problems_created' = <<>>
    /\ good_patterns_created' = <<>>
    /\ component_id_counter' = 1
    /\ relationship_id_counter' = 1
    /\ mac_counter' = 1
    /\ groups' = [apps |-> <<>>, dbs |-> <<>>, caches |-> <<>>, mqs |-> <<>>,
                  storages |-> <<>>, lbs |-> <<>>]
    /\ pc' = PhaseFrom(1)
    /\ idx' = 1
    /\ UNCHANGED <<toolVars, cliVars, clock, prev, run>>

\* f"{prefix}{i:02d}{suffix}.prod.{dc}.regions.com"
MakeFqdn(prefix, i, suffix, location) ==
    prefix \o Fmt02d(i) \o suffix \o <<".", "p", "r", "o", "d", ".">> \o get_dc_code(location)
        \o <<".", "r", "e", "g", "i", "o", "n", "s", ".", "c", "o", "m">>

\* one iteration of a loop of generate_components: the effect of the call of
\* create_component on the generator, and the step to the next iteration
AddComponent(phase, res) ==
    /\ rng' = res.rng
    /\ mac_counter' = res.mac_counter
    /\ IF res.created
       THEN /\ components' = Append(components, res.component)
            /\ component_id_counter' = component_id_counter + 1
       ELSE UNCHANGED <<components, component_id_counter>>
    /\ IF idx < target_count(phase)
       THEN idx' = idx + 1 /\ pc' = pc
       ELSE idx' = 1 /\ pc' = PhaseFrom(PhaseIndex(phase) + 1)
    /\ UNCHANGED <<toolVars, cliVars, seed, relationships, problems_created, good_patterns_created,
                   relationship_id_counter, groups, clock, prev, run>>

app_types ==
    << <<"w", "e", "b", "a", "p", "p">>, <<"p", "o", "r", "t", "a", "l">>,
       <<"m", "o", "b", "i", "l", "e">>, <<"a", "p", "i">>,
       <<"s", "e", "r", "v", "i", "c", "e">>, <<"i", "n", "t", "e", "r", "n", "a", "l">>,
       <<"b", "a", "t", "c", "h">> >>

app_descriptions ==
    <<"Customer-facing banking application", "Internal operations portal",
      "Mobile banking backend service", "API gateway for third-party integrations",
      "Batch processing job scheduler", "Microservice for account management",
      "Web portal for loan applications", "ATM network communication service">>

GenerateApplication ==
    /\ pc = "apps"
    /\ idx <= target_count("apps")
    /\ LET location == Choice(rng, locations)
           app_type == Choice(location.rng, app_types)
           r_status == Random(app_type.rng)
           status == IF RandomMore(r_status.v, 15) THEN "OPERATIONAL" ELSE "DEGRADED"
           description == Choice(r_status.rng, app_descriptions)
       IN  AddComponent("apps",
               create_component(MakeFqdn(app_type.v, idx, <<>>, location.v), location.v,
                                "application", description.v, status,
                                description.rng, component_id_counter, mac_counter))

GenerateDatabase ==
    /\ pc = "dbs"
    /\ idx <= target_count("dbs")
    /\ LET location == Choice(rng, locations)
           db_type == IF idx % 2 = 1 THEN <<"p", "r", "i">> ELSE <<"s", "e", "c">>
       IN  AddComponent("dbs",
               create_component(MakeFqdn(<<"d", "b">>, idx, db_type, location.v), location.v,
                                "polyglot_persistence",
                                IF idx % 2 = 1 THEN "Primary database for critical data"
                                ELSE "Secondary database for critical data",
                                "OPERATIONAL", location.rng, component_id_counter, mac_counter))

GenerateCache ==
    /\ pc = "caches"
    /\ idx <= target_count("caches")
    /\ LET location == Choice(rng, locations)
           cache_type == Choice(location.rng,
                                << <<"r", "e", "d", "i", "s">>, <<"c", "a", "c", "h", "e">> >>)
       IN  AddComponent("caches",
               create_component(MakeFqdn(cache_type.v, idx, <<>>, location.v), location.v,
                                "polyglot_persistence",
                                "High-performance cache for session/API data",
                                "OPERATIONAL", cache_type.rng, component_id_counter, mac_counter))

GenerateMessageQueue ==
    /\ pc = "mqs"
    /\ idx <= target_count("mqs")
    /\ LET location == Choice(rng, locations)
           mq_type == Choice(location.rng, << <<"k", "a", "f", "k", "a">>, <<"m", "q">> >>)
       IN  AddComponent("mqs",
               create_component(MakeFqdn(mq_type.v, idx, <<>>, location.v), location.v,
                                "polyglot_persistence", "Message broker for event streaming",
                                "OPERATIONAL", mq_type.rng, component_id_counter, mac_counter))

GenerateStorage ==
    /\ pc = "storage"
    /\ idx <= target_count("storage")
    /\ LET location == Choice(rng, locations)
           storage_type == Choice(location.rng,
                                  << <<"n", "a", "s">>, <<"s", "a", "n">>,
                                     <<"m", "i", "n", "i", "o">>, <<"o", "b", "j">> >>)
       IN  AddComponent("storage",
               create_component(MakeFqdn(storage_type.v, idx, <<>>, location.v), location.v,
                                "block_level_persistence",
                                "Enterprise storage for documents and backups",
                                "OPERATIONAL", storage_type.rng, component_id_counter,
                                mac_counter))

GenerateLoadBalancer ==
    /\ pc = "lbs"
    /\ idx <= target_count("lbs")
    /\ LET location == Choice(rng, locations)
       IN  AddComponent("lbs",
               create_component(MakeFqdn(<<"l", "b">>, idx, <<>>, location.v), location.v,
                                "networking",
                                "Load balancer for application traffic distribution",
                                "OPERATIONAL", location.rng, component_id_counter, mac_counter))

(***************************************************************************)
(* generate_relationships.  The lists apps, dbs, ... hold component ids.   *)
(* The steps below run in the order of the code; st is the part of the     *)
(* generator a pattern changes:                                            *)
(*   [rng, relationships, problems_created, good_patterns_created].        *)
(***************************************************************************)
\* c.get('fqdn', f'pending_{c["component_id"]}')
GroupingName(c) ==
    GetFqdn(c, <<"p", "e", "n", "d", "i", "n", "g", "_">> \o Decimal(c.component_id))

\* the list a component is put on by the loop "Group components by type"
group_of(c) ==
    LET fqdn == GroupingName(c)
    IN  IF AnyIn({ <<"a", "p", "p">>, <<"p", "o", "r", "t", "a", "l">>,
                   <<"m", "o", "b", "i", "l", "e">>, <<"a", "p", "i">>,
                   <<"s", "e", "r", "v", "i", "c", "e">> }, fqdn) THEN "apps"
        ELSE IF Contains(<<"d", "b">>, fqdn) THEN "dbs"
        ELSE IF AnyIn({<<"r", "e", "d", "i", "s">>, <<"c", "a", "c", "h", "e">>}, fqdn) THEN "caches"
        ELSE IF AnyIn({<<"k", "a", "f", "k", "a">>, <<"m", "q">>}, fqdn) THEN "mqs"
        ELSE IF AnyIn(StorageNeedles, fqdn) THEN "storages"
        ELSE IF Contains(<<"l", "b">>, fqdn) THEN "lbs"
        ELSE "none"

RECURSIVE SelectIds(_, _, _)
\* the ids of the components from the k-th on that are put on list g, in order
SelectIds(comps, g, k) ==
    IF k > Len(comps) THEN <<>>
    ELSE IF group_of(comps[k]) = g
    THEN <<comps[k].component_id>> \o SelectIds(comps, g, k + 1)
    ELSE SelectIds(comps, g, k + 1)

GroupComponents ==
    /\ pc = "relationships"
    /\ groups' = [apps |-> SelectIds(components, "apps", 1),
                  dbs |-> SelectIds(components, "dbs", 1),
                  caches |-> SelectIds(components, "caches", 1),
                  mqs |-> SelectIds(components, "mqs", 1),
                  storages |-> SelectIds(components, "storages", 1),
                  lbs |-> SelectIds(components, "lbs", 1)]
    /\ pc' = "hub"
    /\ UNCHANGED <<toolVars, cliVars, seed, rng, components, relationships, problems_created,
                   good_patterns_created, component_id_counter, relationship_id_counter,
                   mac_counter, idx, clock, prev, run>>

GenState == [rng |-> rng, relationships |-> relationships,
             problems_created |-> problems_created,
             good_patterns_created |-> good_patterns_created]

\* a step of generate_relationships that leaves the generator as st
RelationshipStep(st, next_pc) ==
    /\ rng' = st.rng
    /\ relationships' = st.relationships
    /\ relationship_id_counter' = Len(st.relationships) + 1
    /\ problems_created' = st.problems_created
    /\ good_patterns_created' = st.good_patterns_created
    /\ pc' = next_pc
    /\ UNCHANGED <<toolVars, cliVars, seed, components, component_id_counter, mac_counter, groups,
                   idx, clock, prev, run>>

\* d.get('fqdn', '') of the component with this id
FqdnOf(id) == GetFqdn(component_map(components, id), <<>>)

LocationOf(id) == component_map(components, id).physical_location_id

RECURSIVE FirstWith(_, _, _)
\* next((d for d in ids if needle in d.get('fqdn', '')), default)
FirstWith(ids, needle, default) ==
    IF ids = <<>> THEN default
    ELSE IF Contains(needle, FqdnOf(Head(ids))) THEN Head(ids)
    ELSE FirstWith(Tail(ids), needle, default)

RECURSIVE LinkAll(_, _, _, _, _, _)
\* for x in from_ids: self.create_relationship(x, to_id, rel_type, description)
LinkAll(rels, from_ids, to_id, rel_type, description, n) ==
    IF from_ids = <<>> THEN rels
    ELSE LinkAll(create_relationship(rels, components, Head(from_ids), to_id, rel_type,
                                     description, n),
                 Tail(from_ids), to_id, rel_type, description, n)

HubText == "HUB PATTERN: One of {num_apps} apps using central database"

\* the hub picked without the preference for a primary
hub_db_first(dbs) == dbs[1]

\* hub_db of create_hub_database_pattern
hub_db_of(dbs) == FirstWith(dbs, <<"p", "r", "i">>, dbs[1])

create_hub_database_pattern(st, apps, dbs) ==
    LET hub_db == hub_db_of(dbs)
        concentration == concentration_configs(app_concentration)
        drawn == RandInt(st.rng, concentration.min, concentration.max)
        num_apps == Min(drawn.v, Len(apps))
        selected_apps == Sample(drawn.rng, apps, num_apps)
    IN  [st EXCEPT !.rng = selected_apps.rng,
                   !.relationships = LinkAll(st.relationships, selected_apps.v, hub_db,
                                             "persists_to", HubText, num_apps),
                   !.problems_created = Append(st.problems_created,
                                               <<"Hub database", num_apps>>)]

HubPattern ==
    /\ pc = "hub"
    /\ RelationshipStep(IF groups.dbs # <<>> /\ groups.apps # <<>>
                        THEN create_hub_database_pattern(GenState, groups.apps, groups.dbs)
                        ELSE GenState,
                        "failover")

RECURSIVE DigitRun(_, _)
\* the longest run of digits of s that starts at position k
DigitRun(s, k) ==
    IF k <= Len(s) /\ IsDigit(s[k]) THEN <<s[k]>> \o DigitRun(s, k + 1) ELSE <<>>

\* re.search(r'db(\d+)', fqdn).group(1), None when there is no match
db_num_of(fqdn) ==
    LET hits == { i \in 1..(Len(fqdn) - 2) :
                    /\ fqdn[i] = "d" /\ fqdn[i + 1] = "b" /\ IsDigit(fqdn[i + 2]) }
    IN  IF hits = {} THEN None
        ELSE DigitRun(fqdn, 2 + CHOOSE i \in hits : \A j \in hits : i <= j)

RECURSIVE db_keys(_, _)
\* the keys of db_pairs in insertion order, given those seen so far
db_keys(dbs, seen) ==
    IF dbs = <<>> THEN <<>>
    ELSE LET fqdn == FqdnOf(Head(dbs))
             num == db_num_of(fqdn)
         IN  IF fqdn # <<>> /\ num # None /\ num \notin seen
             THEN <<num>> \o db_keys(Tail(dbs), seen \cup {num})
             ELSE db_keys(Tail(dbs), seen)

\* db_pairs[db_num]
db_pair(dbs, db_num) ==
    SelectSeq(dbs, LAMBDA d : FqdnOf(d) # <<>> /\ db_num_of(FqdnOf(d)) = db_num)

SameDcFailoverText == "ISSUE: Same-DC failover - no real disaster recovery!"
CrossDcFailoverText == "GOOD: Cross-DC failover for proper disaster recovery"

RECURSIVE failover_pairs(_, _, _)
\* the loop "for db_num, pair in db_pairs.items()" of create_failover_patterns
failover_pairs(st, dbs, keys) ==
    IF keys = <<>> THEN st
    ELSE
    LET pair == db_pair(dbs, Head(keys))
        primary == FirstWith(pair, <<"p", "r", "i">>, 0)
        secondary == FirstWith(pair, <<"s", "e", "c">>, 0)
        after ==
            IF Len(pair) >= 2 /\ primary # 0 /\ secondary # 0
            THEN IF LocationOf(primary) = LocationOf(secondary)
                 THEN [st EXCEPT
                         !.relationships =
                             create_relationship(st.relationships, components, primary,
                                                 secondary, "fails_over_to",
                                                 SameDcFailoverText, 0),
                         !.problems_created =
                             Append(st.problems_created, <<"Same-DC failover", primary>>)]
                 ELSE [st EXCEPT
                         !.relationships =
                             create_relationship(st.relationships, components, primary,
                                                 secondary, "fails_over_to",
                                                 CrossDcFailoverText, 0),
                         !.good_patterns_created =
                             Append(st.good_patterns_created, <<"Cross-DC failover", primary>>)]
            ELSE st
    IN  failover_pairs(after, dbs, Tail(keys))

create_failover_patterns(st, dbs) == failover_pairs(st, dbs, db_keys(dbs, {}))

FailoverPatterns ==
    /\ pc = "failover"
    /\ RelationshipStep(IF Len(groups.dbs) >= 2
                        THEN create_failover_patterns(GenState, groups.dbs)
                        ELSE GenState,
                        "cache")

CoLocatedCacheText == "GOOD: Co-located cache for low latency"
CrossDcCacheIssueText == "ISSUE: Cross-datacenter cache access adding latency"
CrossDcCacheOkText == "Cross-DC cache access (acceptable for this use case)"

RECURSIVE cache_apps(_, _, _)
\* the loop "for app in selected_apps" of create_cache_patterns
cache_apps(st, cache, selected_apps) ==
    IF selected_apps = <<>> THEN st
    ELSE
    LET app == Head(selected_apps)
        r == Random(st.rng)
        after ==
            IF LocationOf(app) = LocationOf(cache)
            THEN [st EXCEPT
                    !.relationships =
                        create_relationship(st.relationships, components, app, cache,
                                            "persists_to", CoLocatedCacheText, 0),
                    !.good_patterns_created =
                        Append(st.good_patterns_created, <<"Co-located cache", app>>)]
            ELSE IF RandomLess(r.v, problem_ratio)
            THEN [st EXCEPT
                    !.rng = r.rng,
                    !.relationships =
                        create_relationship(st.relationships, components, app, cache,
                                            "persists_to", CrossDcCacheIssueText, 0),
                    !.problems_created =
                        Append(st.problems_created, <<"Cross-DC cache", app>>)]
            ELSE [st EXCEPT
                    !.rng = r.rng,
                    !.relationships =
                        create_relationship(st.relationships, components, app, cache,
                                            "persists_to", CrossDcCacheOkText, 0)]
    IN  cache_apps(after, cache, Tail(selected_apps))

RECURSIVE create_cache_patterns(_, _, _)
create_cache_patterns(st, apps, caches) ==
    IF caches = <<>> THEN st
    ELSE
    LET num_apps == RandInt(st.rng, 2, 5)
        selected_apps == Sample(num_apps.rng, apps, Min(num_apps.v, Len(apps)))
    IN  create_cache_patterns(
            cache_apps([st EXCEPT !.rng = selected_apps.rng], Head(caches), selected_apps.v),
            apps, Tail(caches))

CachePatterns ==
    /\ pc = "cache"
    /\ RelationshipStep(IF groups.apps # <<>> /\ groups.caches # <<>>
                        THEN create_cache_patterns(GenState, groups.apps, groups.caches)
                        ELSE GenState,
                        "mq")

RECURSIVE mq_clients(_, _, _)
\* the loop "for mq in mqs" of create_mq_patterns
mq_clients(st, apps, mqs) ==
    IF mqs = <<>> THEN st
    ELSE
    LET mq == Head(mqs)
        num_publishers == RandInt(st.rng, 1, 3)
        publishers == Sample(num_publishers.rng, apps, Min(num_publishers.v, Len(apps)))
        published == LinkAll(st.relationships, publishers.v, mq, "publishes_to",
                             "Publishing events to message queue", 0)
        num_subscribers == RandInt(publishers.rng, 2, 5)
        subscribers == Sample(num_subscribers.rng, apps, Min(num_subscribers.v, Len(apps)))
        subscribed == LinkAll(published, subscribers.v, mq, "subscribes_to",
                              "Subscribing to events from message queue", 0)
    IN  mq_clients([st EXCEPT !.rng = subscribers.rng, !.relationships = subscribed],
                   apps, Tail(mqs))

RECURSIVE ReplicateAll(_, _, _, _)
\* for replica in kafka_nodes[1:]: create_relationship(replica, primary, 'replicates_from', ...)
ReplicateAll(rels, replicas, primary, description) ==
    IF replicas = <<>> THEN rels
    ELSE ReplicateAll(create_relationship(rels, components, Head(replicas), primary,
                                          "replicates_from", description, 0),
                      Tail(replicas), primary, description)

KafkaSameDcText == "ISSUE: All Kafka replicas in same datacenter!"
KafkaDistributedText == "GOOD: Geographic distribution for Kafka cluster"

create_mq_patterns(st, apps, mqs) ==
    LET linked == mq_clients(st, apps, mqs)
        kafka_nodes == SelectSeq(mqs, LAMBDA m : Contains(<<"k", "a", "f", "k", "a">>, FqdnOf(m)))
        kafka_locations == { LocationOf(kafka_nodes[i]) : i \in 1..Len(kafka_nodes) }
    IN  IF Len(kafka_nodes) >= 2
        THEN IF Cardinality(kafka_locations) = 1
             THEN [linked EXCEPT
                     !.relationships = ReplicateAll(linked.relationships, Tail(kafka_nodes),
                                                    kafka_nodes[1], KafkaSameDcText),
                     !.problems_created = Append(linked.problems_created,
                                                 <<"Kafka cluster with no geographic distribution", 0>>)]
             ELSE [linked EXCEPT
                     !.relationships = ReplicateAll(linked.relationships, Tail(kafka_nodes),
                                                    kafka_nodes[1], KafkaDistributedText),
                     !.good_patterns_created = Append(linked.good_patterns_created,
                                                      <<"Properly distributed Kafka cluster", 0>>)]
        ELSE linked

MqPatterns ==
    /\ pc = "mq"
    /\ RelationshipStep(IF groups.apps # <<>> /\ groups.mqs # <<>>
                        THEN create_mq_patterns(GenState, groups.apps, groups.mqs)
                        ELSE GenState,
                        "lb")

RECURSIVE lb_apps(_, _, _)
\* the loop "for app in selected_apps" of create_lb_patterns
lb_apps(rels, lb, selected_apps) ==
    IF selected_apps = <<>> THEN rels
    ELSE lb_apps(create_relationship(rels, components, Head(selected_apps), lb, "proxied_by",
                                     IF LocationOf(Head(selected_apps)) = LocationOf(lb)
                                     THEN "Load balanced for high availability"
                                     ELSE "Cross-DC load balancing (higher latency)", 0),
                 lb, Tail(selected_apps))

RECURSIVE create_lb_patterns(_, _, _)
create_lb_patterns(st, apps, lbs) ==
    IF lbs = <<>> THEN st
    ELSE
    LET num_apps == RandInt(st.rng, 3, 8)
        selected_apps == Sample(num_apps.rng, apps, Min(num_apps.v, Len(apps)))
    IN  create_lb_patterns([st EXCEPT !.rng = selected_apps.rng,
                                      !.relationships = lb_apps(st.relationships, Head(lbs),
                                                                selected_apps.v)],
                           apps, Tail(lbs))

LbPatterns ==
    /\ pc = "lb"
    /\ RelationshipStep(IF groups.apps # <<>> /\ groups.lbs # <<>>
                        THEN create_lb_patterns(GenState, groups.apps, groups.lbs)
                        ELSE GenState,
                        "circular")

CircularChainText == "ISSUE: Part of circular dependency chain"
CircularDeadlockText == "ISSUE: Circular dependency - potential deadlock!"

\* the chain left open: the third relationship runs from app3 to app2
create_circular_dependency_open(st, apps) ==
    LET circular_apps == Sample(st.rng, apps, 3)
        r1 == create_relationship(st.relationships, components, circular_apps.v[1],
                                  circular_apps.v[2], "consumes_api_from", CircularChainText, 0)
        r2 == create_relationship(r1, components, circular_apps.v[2], circular_apps.v[3],
                                  "consumes_api_from", CircularChainText, 0)
        r3 == create_relationship(r2, components, circular_apps.v[3], circular_apps.v[2],
                                  "consumes_api_from", CircularDeadlockText, 0)
    IN  [st EXCEPT !.rng = circular_apps.rng,
                   !.relationships = r3,
                   !.problems_created = Append(st.problems_created,
                                               <<"Circular dependency", circular_apps.v[1]>>)]

create_circular_dependency(st, apps) ==
    LET circular_apps == Sample(st.rng, apps, 3)
        r1 == create_relationship(st.relationships, components, circular_apps.v[1],
                                  circular_apps.v[2], "consumes_api_from", CircularChainText, 0)
        r2 == create_relationship(r1, components, circular_apps.v[2], circular_apps.v[3],
                                  "consumes_api_from", CircularChainText, 0)
        r3 == create_relationship(r2, components, circular_apps.v[3], circular_apps.v[1],
                                  "consumes_api_from", CircularDeadlockText, 0)
    IN  [st EXCEPT !.rng = circular_apps.rng,
                   !.relationships = r3,
                   !.problems_created = Append(st.problems_created,
                                               <<"Circular dependency", circular_apps.v[1]>>)]

\* "if len(apps) >= 3 and random.random() < self.problem_ratio": the draw is made
\* only when there are three applications
CircularDependency ==
    /\ pc = "circular"
    /\ LET r == Random(rng)
       IN  RelationshipStep(
               IF Len(groups.apps) >= 3
               THEN IF RandomLess(r.v, problem_ratio)
                    THEN create_circular_dependency([GenState EXCEPT !.rng = r.rng], groups.apps)
                    ELSE [GenState EXCEPT !.rng = r.rng]
               ELSE GenState,
               "orphaned")

\* the components with relationships, counting the sources only
components_with_rels_sources(rels) == { rels[i].component_id : i \in 1..Len(rels) }

\* components_with_rels of create_orphaned_components
components_with_rels(rels) ==
    { rels[i].component_id : i \in 1..Len(rels) }
        \cup { rels[i].related_component_id : i \in 1..Len(rels) }

\* comp['description'] = f"ORPHANED: {comp['description']} - No active connections!"
mark_orphaned(comp) == [comp EXCEPT !.description.orphaned = TRUE]

create_orphaned_components ==
    LET with_rels == components_with_rels(relationships)
        orphaned == { i \in 1..Len(components) : components[i].component_id \notin with_rels }
    IN  /\ components' = [i \in 1..Len(components) |->
                             IF i \in orphaned THEN mark_orphaned(components[i])
                             ELSE components[i]]
        /\ problems_created' =
               IF orphaned # {}
               THEN Append(problems_created, <<"orphaned components", Cardinality(orphaned)>>)
               ELSE problems_created

\* the end of generate_relationships; the workbook is written from the lists as they are
OrphanedComponents ==
    /\ pc = "orphaned"
    /\ create_orphaned_components
    /\ pc' = "done"
    /\ UNCHANGED <<toolVars, cliVars, seed, rng, relationships, good_patterns_created,
                   component_id_counter, relationship_id_counter, mac_counter, groups,
                   idx, clock, prev, run>>

\* the output of a run: what the sheets biz_components and
\* biz_component_relationships are written from
Output == [components |-> components, relationships |-> relationships]

\* The operator runs the generator a second time with the same command line; the
\* wall clock may have moved on by then.
RunAgain ==
    /\ pc = "done"
    /\ run = 1
    /\ prev' = Output
    /\ run' = 2
    /\ clock' \in {clock, clock + 1} \cap (1..MaxClock)
    /\ pc' = "main"
    /\ UNCHANGED <<toolVars, cliVars, genVars, idx>>

Next ==
    \/ Main
    \/ GenerateApplication
    \/ GenerateDatabase
    \/ GenerateCache
    \/ GenerateMessageQueue
    \/ GenerateStorage
    \/ GenerateLoadBalancer
    \/ GroupComponents
    \/ HubPattern
    \/ FailoverPatterns
    \/ CachePatterns
    \/ MqPatterns
    \/ LbPatterns
    \/ CircularDependency
    \/ OrphanedComponents
    \/ RunAgain

Spec == Init /\ [][Next]_vars

\* generate_components alone, under every scale
NextComponents ==
    \/ Main
    \/ GenerateApplication
    \/ GenerateDatabase
    \/ GenerateCache
    \/ GenerateMessageQueue
    \/ GenerateStorage
    \/ GenerateLoadBalancer

SpecScale == InitScale /\ [][NextComponents]_vars

\* single runs of the small scale with every field pending discovery, over a
\* range of explicit seeds
SweepCommandLines ==
    [scale : {"small"}, problem_ratio : ProblemRatios, pending_ratio : {100},
     app_concentration : Concentrations, arg_seed : 0..(NumSweepSeeds - 1),
     randomize : {FALSE}]

InitSweep == InitWith(SweepCommandLines)

NextOnce ==
    \/ Main
    \/ GenerateApplication \/ GenerateDatabase \/ GenerateCache
    \/ GenerateMessageQueue \/ GenerateStorage \/ GenerateLoadBalancer
    \/ GroupComponents
    \/ HubPattern \/ FailoverPatterns \/ CachePatterns \/ MqPatterns \/ LbPatterns
    \/ CircularDependency \/ OrphanedComponents

SpecSweep == InitSweep /\ [][NextOnce]_vars


(***************************************************************************)
(* GraphBuilder.apply_neighborhood_filter (graph.py).                      *)
(***************************************************************************)
\* node['data'] of the nodes handed to the filter, by node id; border is the
\* highlight node['style'] carries
NodeTable ==
    << [id |-> 1, name |-> <<"w", "e", "b", "0", "1">>, ip |-> <<"1", "0", ".", "1", ".", "0", ".", "5">>, vlan |-> 100,
        location |-> <<"D", "C", "0", "1", "_", "A", "L">>, border |-> FALSE],
       [id |-> 2, name |-> <<"D", "B", "0", "1", "p", "r", "i">>, ip |-> <<"1", "0", ".", "2", ".", "0", ".", "7">>, vlan |-> 200,
        location |-> <<"D", "C", "0", "2", "_", "N", "C">>, border |-> FALSE],
       [id |-> 3, name |-> <<"c", "a", "c", "h", "e", "0", "3">>, ip |-> <<"1", "0", ".", "1", ".", "0", ".", "9">>, vlan |-> 300,
        location |-> <<"D", "C", "0", "1", "_", "A", "L">>, border |-> FALSE],
       [id |-> 4, name |-> <<"m", "q", "0", "4">>, ip |-> <<"1", "0", ".", "3", ".", "0", ".", "2">>, vlan |-> 100,
        location |-> <<"D", "C", "0", "3", "_", "V", "A">>, border |-> FALSE],
       [id |-> 5, name |-> <<"l", "b", "0", "5">>, ip |-> <<"1", "0", ".", "2", ".", "0", ".", "1">>, vlan |-> 400,
        location |-> <<"D", "C", "0", "2", "_", "N", "C">>, border |-> FALSE],
       [id |-> 6, name |-> <<"n", "a", "s", "0", "6">>, ip |-> <<"1", "0", ".", "3", ".", "0", ".", "6">>, vlan |-> 300,
        location |-> <<"D", "C", "0", "3", "_", "V", "A">>, border |-> FALSE] >>

SearchTerms == { <<>>, <<"W", "E", "B">>, <<"d", "b">>, <<"1", "0", ".", "1">>, <<"1", "0", "0">>, <<"d", "c", "0">>, <<"z", "z", "z">> }

\* the lists of at most n pairs of ids (source, target) out of 1..m
PairLists(m, n) ==
    UNION { [1..k -> [source : 1..m, target : 1..m]] : k \in 0..n }

\* the condition of the matching loop
node_matches(node_data, search_lower) ==
    \/ Contains(search_lower, Lower(node_data.name))
    \/ Contains(search_lower, Lower(node_data.ip))
    \/ Contains(search_lower, Lower(Decimal(node_data.vlan)))
    \/ Contains(search_lower, Lower(node_data.location))

matched_ids(ns, search_lower) ==
    { ns[i].id : i \in { j \in 1..Len(ns) : node_matches(ns[j], search_lower) } }

\* the neighbourhood grown from connected_ids, so that it keeps growing
connected_ids_growing(matched, es) ==
    LET one_hop == matched \cup { es[i].target : i \in { j \in 1..Len(es) : es[j].source \in matched } }
                           \cup { es[i].source : i \in { j \in 1..Len(es) : es[j].target \in matched } }
    IN  one_hop \cup { es[i].target : i \in { j \in 1..Len(es) : es[j].source \in one_hop } }
                \cup { es[i].source : i \in { j \in 1..Len(es) : es[j].target \in one_hop } }

\* connected_ids: matched_ids and the other end of every edge with an end in matched_ids
connected_ids(matched, es) ==
    matched \cup { es[i].target : i \in { j \in 1..Len(es) : es[j].source \in matched } }
            \cup { es[i].source : i \in { j \in 1..Len(es) : es[j].target \in matched } }

\* the returned tuple, and the node list after the call (the highlight is set on
\* the caller's node dictionaries)
apply_neighborhood_filter(ns, es, term) ==
    IF term = <<>>
    THEN [nodes |-> ns, edges |-> es, arg_nodes |-> ns]
    ELSE LET search_lower == Lower(term)
             matched == matched_ids(ns, search_lower)
             connected == connected_ids(matched, es)
             styled == [i \in 1..Len(ns) |->
                          IF ns[i].id \in matched THEN [ns[i] EXCEPT !.border = TRUE]
                          ELSE ns[i]]
         IN  IF matched = {}
             THEN [nodes |-> ns, edges |-> es, arg_nodes |-> ns]
             ELSE [nodes |-> SelectSeq(styled, LAMBDA n : n.id \in connected),
                   edges |-> SelectSeq(es, LAMBDA e : e.source \in connected
                                                      /\ e.target \in connected),
                   arg_nodes |-> styled]

\* the generator at rest while the graph or the dashboard is in use
GeneratorIdle ==
    /\ scale = "small" /\ problem_ratio = 30 /\ pending_ratio = 0
    /\ app_concentration = "medium" /\ arg_seed = NoSeed /\ randomize = FALSE
    /\ clock = 1 /\ seed = 0 /\ rng = 1
    /\ components = <<>> /\ relationships = <<>>
    /\ problems_created = <<>> /\ good_patterns_created = <<>>
    /\ component_id_counter = 1 /\ relationship_id_counter = 1 /\ mac_counter = 1
    /\ groups = [apps |-> <<>>, dbs |-> <<>>, caches |-> <<>>, mqs |-> <<>>,
                 storages |-> <<>>, lbs |-> <<>>]
    /\ idx = 1 /\ prev = NoOutput /\ run = 1

InitGraph ==
    /\ GeneratorIdle
    /\ RestIdle
    /\ pc = "neighborhood"
    /\ nodes = SubSeq(NodeTable, 1, NumNodes)
    /\ edges \in PairLists(NumNodes, MaxEdges)
    /\ search_term \in SearchTerms
    /\ filtered_nodes = <<>> /\ filtered_edges = <<>>
    /\ components_df = <<>> /\ relationships_df = <<>>
    /\ filters = [search_term |-> <<>>, env_filter |-> {}, status_filter |-> {},
                  type_filter |-> {}]
    /\ all_visible_components = <<>> /\ filtered_relationships = <<>>

ApplyNeighborhoodFilter ==
    /\ pc = "neighborhood"
    /\ LET res == apply_neighborhood_filter(nodes, edges, search_term)
       IN  /\ filtered_nodes' = res.nodes
           /\ filtered_edges' = res.edges
           /\ nodes' = res.arg_nodes
    /\ pc' = "neighborhood_done"
    /\ UNCHANGED <<restVars, cliVars, genVars, idx, clock, prev, run, edges, search_term, filterVars>>

SpecGraph == InitGraph /\ [][ApplyNeighborhoodFilter]_vars

(***************************************************************************)
(* apply_filters (streamlit_app.py).                                       *)
(***************************************************************************)
\* rows of components_df, by component_id
ComponentTable ==
    << [component_id |-> 1, fqdn |-> <<"w", "e", "b", "0", "1", ".", "p", "r", "o", "d">>, app_code |-> <<"A", "P", "P", "0", "0", "1">>,
        component_type |-> <<"a", "p", "p", "l", "i", "c", "a", "t", "i", "o", "n">>, environment |-> <<"P", "R", "O", "D">>,
        ops_status |-> <<"O", "P", "E", "R", "A", "T", "I", "O", "N", "A", "L">>],
       [component_id |-> 2, fqdn |-> <<"d", "b", "0", "2", "p", "r", "i", ".", "p", "r", "o", "d">>, app_code |-> <<"A", "P", "P", "0", "0", "2">>,
        component_type |-> <<"d", "a", "t", "a", "b", "a", "s", "e">>, environment |-> <<"P", "R", "O", "D">>,
        ops_status |-> <<"D", "E", "G", "R", "A", "D", "E", "D">>],
       [component_id |-> 3, fqdn |-> <<"a", "p", "p", "0", "3", ".", "d", "e", "v">>, app_code |-> <<"A", "P", "P", "0", "0", "3">>,
        component_type |-> <<"a", "p", "p", "l", "i", "c", "a", "t", "i", "o", "n">>, environment |-> <<"D", "E", "V">>,
        ops_status |-> <<"O", "P", "E", "R", "A", "T", "I", "O", "N", "A", "L">>],
       [component_id |-> 4, fqdn |-> <<"c", "a", "c", "h", "e", "0", "4", ".", "d", "e", "v">>, app_code |-> <<"A", "P", "P", "0", "0", "4">>,
        component_type |-> <<"c", "a", "c", "h", "e">>, environment |-> <<"D", "E", "V">>,
        ops_status |-> <<"D", "E", "G", "R", "A", "D", "E", "D">>],
       [component_id |-> 5, fqdn |-> <<"m", "q", "0", "5", ".", "p", "r", "o", "d">>, app_code |-> <<"A", "P", "P", "0", "0", "5">>,
        component_type |-> <<"m", "e", "s", "s", "a", "g", "e", "_", "q", "u", "e", "u", "e">>, environment |-> <<"P", "R", "O", "D">>,
        ops_status |-> <<"O", "P", "E", "R", "A", "T", "I", "O", "N", "A", "L">>] >>

FilterChoices ==
    [search_term : { <<>>, <<"A", "P", "P">>, <<"d", "b">>, <<"z", "z", "z">> },
     env_filter : { {}, { <<"P", "R", "O", "D">> }, { <<"D", "E", "V">> } },
     status_filter : { {}, { <<"O", "P", "E", "R", "A", "T", "I", "O", "N", "A", "L">> } },
     type_filter : { {}, { <<"a", "p", "p", "l", "i", "c", "a", "t", "i", "o", "n">> }, { <<"a", "p", "p", "l", "i", "c", "a", "t", "i", "o", "n">>, <<"d", "a", "t", "a", "b", "a", "s", "e">> } }]

\* rows of relationships_df: (component_id, related_component_id)
RelationshipLists(m, n) ==
    UNION { [1..k -> [component_id : 1..m, related_component_id : 1..m]] : k \in 0..n }

\* the rows left by the search, environment, status and type filters
filtered_components_of(df, f) ==
    LET search_lower == Lower(f.search_term)
        by_search == IF f.search_term # <<>>
                     THEN SelectSeq(df, LAMBDA c :
                              \/ Contains(search_lower, Lower(c.fqdn))
                              \/ Contains(search_lower, Lower(c.app_code))
                              \/ Contains(search_lower, Lower(c.component_type)))
                     ELSE df
        by_env == IF f.env_filter # {}
                  THEN SelectSeq(by_search, LAMBDA c : c.environment \in f.env_filter)
                  ELSE by_search
        by_status == IF f.status_filter # {}
                     THEN SelectSeq(by_env, LAMBDA c : c.ops_status \in f.status_filter)
                     ELSE by_env
    IN  IF f.type_filter # {}
        THEN SelectSeq(by_status, LAMBDA c : c.component_type \in f.type_filter)
        ELSE by_status

apply_filters(df, rels, f) ==
    LET filtered_components == filtered_components_of(df, f)
        filtered_component_ids ==
            { filtered_components[i].component_id : i \in 1..Len(filtered_components) }
        touching == SelectSeq(rels, LAMBDA r :
                        \/ r.component_id \in filtered_component_ids
                        \/ r.related_component_id \in filtered_component_ids)
        connected_component_ids ==
            { touching[i].component_id : i \in 1..Len(touching) }
                \cup { touching[i].related_component_id : i \in 1..Len(touching) }
        visible == SelectSeq(df, LAMBDA c : c.component_id \in connected_component_ids)
    IN  IF Len(visible) = 0
        THEN [components |-> filtered_components,
              relationships |-> SelectSeq(rels, LAMBDA r :
                                   /\ r.component_id \in filtered_component_ids
                                   /\ r.related_component_id \in filtered_component_ids)]
        ELSE [components |-> visible, relationships |-> touching]

InitFilters ==
    /\ GeneratorIdle
    /\ RestIdle
    /\ pc = "filters"
    /\ nodes = <<>> /\ edges = <<>> /\ search_term = <<>>
    /\ filtered_nodes = <<>> /\ filtered_edges = <<>>
    /\ components_df = SubSeq(ComponentTable, 1, NumRows)
    /\ relationships_df \in RelationshipLists(NumRows, MaxRelationships)
    /\ filters \in FilterChoices
    /\ all_visible_components = <<>> /\ filtered_relationships = <<>>

ApplyFilters ==
    /\ pc = "filters"
    /\ LET res == apply_filters(components_df, relationships_df, filters)
       IN  /\ all_visible_components' = res.components
           /\ filtered_relationships' = res.relationships
    /\ pc' = "filters_done"
    /\ UNCHANGED <<restVars, cliVars, genVars, idx, clock, prev, run, graphVars,
                   components_df, relationships_df, filters>>

SpecFilters == InitFilters /\ [][ApplyFilters]_vars

(***************************************************************************)
(* recreate_schemas_refresh_users.py.                                      *)
(***************************************************************************)
RECURSIVE Split(_, _)
\* s.split(sep) for a one-character separator
Split(s, sep) ==
    IF \A i \in 1..Len(s) : s[i] # sep
    THEN <<s>>
    ELSE LET p == CHOOSE i \in 1..Len(s) : s[i] = sep /\ \A j \in 1..(i - 1) : s[j] # sep
         IN  <<SubSeq(s, 1, p - 1)>> \o Split(SubSeq(s, p + 1, Len(s)), sep)

RECURSIVE Strip(_)
\* s.strip()
Strip(s) ==
    IF s = <<>> THEN s
    ELSE IF Head(s) = " " THEN Strip(Tail(s))
    ELSE IF s[Len(s)] = " " THEN Strip(SubSeq(s, 1, Len(s) - 1))
    ELSE s

\* set(s.strip() for s in text.split(','))
StrippedSet(text) ==
    LET parts == Split(text, ",") IN { Strip(parts[i]) : i \in 1..Len(parts) }

\* validation that lets the request through when one requested schema is allowed
validate_schemas_any(requested_schemas, allowed) ==
    LET requested_set == StrippedSet(requested_schemas)
        allowed_set == StrippedSet(allowed)
    IN  [valid |-> requested_set \cap allowed_set # {}, result |-> requested_set]

validate_schemas(requested_schemas, allowed) ==
    LET requested_set == StrippedSet(requested_schemas)
        allowed_set == StrippedSet(allowed)
        invalid == requested_set \ allowed_set
    IN  [valid |-> invalid = {}, result |-> requested_set]

\* the orders list(requested_set) can come in
ListsOf(set) ==
    { q \in [1..Cardinality(set) -> set] : \A i, j \in 1..Cardinality(set) : q[i] = q[j] => i = j }

\* any answer but a plain no counts as a confirmation
confirmed_unless_no(answer) == answer # "no"

\* "response not in ['Yes', 'yes']", negated
confirmed(answer) == answer \in {"Yes", "yes"}

\* the sections of bais_database_schema.sql the script looks for
SchemaSection(schema) == <<"SCHEMA", schema>>
PermissionsSection == <<"PERMISSIONS">>

\* extract_sql_section: the section is found, or ValueError is raised
extract_sql_section(sql_content, section_name) == section_name \in sql_content

SchemaNames == { <<"d", "e", "m", "o">>, <<"l", "i", "v", "e", "_", "m", "a", "s", "k", "e", "d">>, <<"l", "i", "v", "e">> }

RequestedChoices == { <<"d", "e", "m", "o">>, <<"d", "e", "m", "o", ",", "l", "i", "v", "e", "_", "m", "a", "s", "k", "e", "d">>, <<"d", "e", "m", "o", ",", " ", "l", "i", "v", "e", "_", "m", "a", "s", "k", "e", "d">>, <<"l", "i", "v", "e">>, <<"d", "e", "m", "o", ",", "d", "e", "m", "o">> }
AllowedChoices == { <<>>, <<"d", "e", "m", "o">>, <<"d", "e", "m", "o", ",", "l", "i", "v", "e", "_", "m", "a", "s", "k", "e", "d">>, <<"d", "e", "m", "o", " ", ",", " ", "l", "i", "v", "e", "_", "m", "a", "s", "k", "e", "d">> }
Responses == {"Yes", "yes", "YES", "y", "no", ""}
SqlFiles ==
    { { SchemaSection(n) : n \in SchemaNames } \cup {PermissionsSection},
      { SchemaSection(<<"d", "e", "m", "o">>) } }

InitRecreate ==
    /\ GeneratorIdle
    /\ ViewIdle
    /\ pc = "rs_main"
    /\ args \in [recreate_schemas : RequestedChoices, no_dry_run : BOOLEAN,
                 refresh_permissions : BOOLEAN]
    /\ allowed_schemas \in AllowedChoices
    /\ response = ""
    /\ schemas_to_recreate = <<>>
    /\ sections \in SqlFiles
    /\ executed = <<>>
    /\ db_schemas = SchemaNames
    /\ connection = FALSE /\ current_schema = <<"d", "e", "m", "o">> /\ formatted_queries = <<>>
    /\ data = NoData /\ show_dependencies = TRUE /\ show_peer = TRUE
    /\ G = EmptyGraph /\ graph_json = [nodes |-> <<>>, edges |-> <<>>]

dry_run == ~args.no_dry_run

rsFixed == <<cliVars, genVars, clock, prev, run, viewVars, connVars, dataVars, exportVars,
             args, allowed_schemas, sections>>

\* main, lines 84-98: ALLOWED_SCHEMA_RECREATE and validate_schemas
RsValidate ==
    /\ pc = "rs_main"
    /\ IF allowed_schemas = <<>>
       THEN pc' = "rs_exit" /\ UNCHANGED schemas_to_recreate
       ELSE LET v == validate_schemas(args.recreate_schemas, allowed_schemas)
            IN  IF ~v.valid
                THEN pc' = "rs_exit" /\ UNCHANGED schemas_to_recreate
                ELSE /\ schemas_to_recreate' \in ListsOf(v.result)
                     /\ pc' = "rs_confirm"
    /\ UNCHANGED <<rsFixed, idx, response, executed, db_schemas>>

\* main, lines 76-79, 107-109, 113-115: .env, admin password or SQL file missing
RsMissingFile ==
    /\ pc \in {"rs_main", "rs_confirm"}
    /\ pc' = "rs_exit"
    /\ UNCHANGED <<rsFixed, idx, response, schemas_to_recreate, executed, db_schemas>>

\* main, lines 129-140: the dry-run banner, or the confirmation prompt
RsConfirm ==
    /\ pc = "rs_confirm"
    /\ IF dry_run
       THEN pc' = "rs_connect" /\ UNCHANGED response
       ELSE \E answer \in Responses :
               /\ response' = answer
               /\ pc' = IF confirmed(answer) THEN "rs_connect" ELSE "rs_exit"
    /\ UNCHANGED <<rsFixed, idx, schemas_to_recreate, executed, db_schemas>>

\* main, lines 142-154
RsConnect ==
    /\ pc = "rs_connect"
    /\ pc' = "rs_status"
    /\ idx' = 1
    /\ UNCHANGED <<rsFixed, response, schemas_to_recreate, executed, db_schemas>>

Statement(sql, schema) == [sql |-> sql, schema |-> schema]

\* one turn of a loop "for schema in schemas_to_recreate"
RsLoop(at, next_pc) ==
    /\ pc = at
    /\ IF idx < Len(schemas_to_recreate)
       THEN idx' = idx + 1 /\ pc' = at
       ELSE idx' = 1 /\ pc' = next_pc

\* main, lines 158-165: the table count of each schema
RsStatus ==
    /\ RsLoop("rs_status", "rs_drop")
    /\ executed' = Append(executed, Statement("SELECT COUNT", schemas_to_recreate[idx]))
    /\ UNCHANGED <<rsFixed, response, schemas_to_recreate, db_schemas>>

\* main, lines 178-184: DROP SCHEMA IF EXISTS {schema} CASCADE
RsDrop ==
    /\ RsLoop("rs_drop", "rs_recreate")
    /\ IF dry_run
       THEN UNCHANGED <<executed, db_schemas>>
       ELSE /\ executed' = Append(executed, Statement("DROP SCHEMA", schemas_to_recreate[idx]))
            /\ db_schemas' = db_schemas \ {schemas_to_recreate[idx]}
    /\ UNCHANGED <<rsFixed, response, schemas_to_recreate>>

\* main, lines 200-228: the SCHEMA:{schema} section of the SQL file
RsRecreate ==
    /\ pc = "rs_recreate"
    /\ IF dry_run
       THEN RsLoop("rs_recreate", "rs_permissions") /\ UNCHANGED <<executed, db_schemas>>
       ELSE IF extract_sql_section(sections, SchemaSection(schemas_to_recreate[idx]))
            THEN /\ RsLoop("rs_recreate", "rs_permissions")
                 /\ executed' = Append(executed,
                                       Statement("SCHEMA SECTION", schemas_to_recreate[idx]))
                 /\ db_schemas' = db_schemas \cup {schemas_to_recreate[idx]}
            ELSE pc' = "rs_exit" /\ UNCHANGED <<idx, executed, db_schemas>>
    /\ UNCHANGED <<rsFixed, response, schemas_to_recreate>>

\* main, lines 231-252: the PERMISSIONS section
RsPermissions ==
    /\ pc = "rs_permissions"
    /\ IF ~args.refresh_permissions \/ dry_run
       THEN pc' = "rs_verify" /\ UNCHANGED executed
       ELSE IF extract_sql_section(sections, PermissionsSection)
            THEN /\ executed' = Append(executed, Statement("PERMISSIONS", <<>>))
                 /\ pc' = "rs_verify"
            ELSE pc' = "rs_exit" /\ UNCHANGED executed
    /\ idx' = 1
    /\ UNCHANGED <<rsFixed, response, schemas_to_recreate, db_schemas>>

\* main, lines 255-267: the table count of each recreated schema
RsVerify ==
    /\ pc = "rs_verify"
    /\ IF dry_run
       THEN pc' = "rs_done" /\ UNCHANGED <<idx, executed>>
       ELSE /\ RsLoop("rs_verify", "rs_done")
            /\ executed' = Append(executed, Statement("SELECT COUNT", schemas_to_recreate[idx]))
    /\ UNCHANGED <<rsFixed, response, schemas_to_recreate, db_schemas>>

\* main, lines 288-293: psycopg2.Error from connect or from a statement
RsDatabaseError ==
    /\ pc \in {"rs_connect", "rs_status", "rs_drop", "rs_recreate", "rs_permissions", "rs_verify"}
    /\ pc' = "rs_exit"
    /\ UNCHANGED <<rsFixed, idx, response, schemas_to_recreate, executed, db_schemas>>

NextRecreate ==
    \/ RsValidate
    \/ RsMissingFile
    \/ RsConfirm
    \/ RsConnect
    \/ RsStatus
    \/ RsDrop
    \/ RsRecreate
    \/ RsPermissions
    \/ RsVerify
    \/ RsDatabaseError

SpecRecreate == InitRecreate /\ [][NextRecreate]_vars

(***************************************************************************)
(* DatabaseConnection (bank_inventory_explorer_modules/database.py).       *)
(***************************************************************************)
Placeholder == <<"{", "{", "S", "C", "H", "E", "M", "A", "}", "}">>

RECURSIVE Replace(_, _, _)
\* s.replace(old, new), old not empty
Replace(s, old, new) ==
    IF Len(s) < Len(old) THEN s
    ELSE IF SubSeq(s, 1, Len(old)) = old
         THEN new \o Replace(SubSeq(s, Len(old) + 1, Len(s)), old, new)
         ELSE <<Head(s)>> \o Replace(Tail(s), old, new)

\* the schema names callers hand to set_schema
SchemaArguments == { <<"d", "e", "m", "o">>, <<"p", "u", "b", "l", "i", "c">>, <<"l", "i", "v", "e">>, <<"P", "u", "b", "l", "i", "c">>, <<"l", "i", "v", "e", "_", "m", "a", "s", "k", "e", "d">>, <<>> }

QueryTemplates ==
    { <<"{", "{", "S", "C", "H", "E", "M", "A", "}", "}", ".", "a">>, <<"{", "{", "S", "C", "H", "E", "M", "A", "}", "}", ".", "a", ",", "{", "{", "S", "C", "H", "E", "M", "A", "}", "}", ".", "b">>, <<"n", "o", "w", "(", ")">> }

\* the schema stored without the check of the name
set_schema_unchecked(schema_name) == schema_name

\* the value set_schema stores in current_schema
set_schema(schema_name) ==
    IF schema_name \notin { <<"d", "e", "m", "o">>, <<"p", "u", "b", "l", "i", "c">> } THEN <<"d", "e", "m", "o">> ELSE schema_name

InitDatabase ==
    /\ GeneratorIdle
    /\ ViewIdle
    /\ pc = "db"
    /\ args = NoArgs /\ allowed_schemas = <<>> /\ response = ""
    /\ schemas_to_recreate = <<>> /\ sections = {} /\ executed = <<>> /\ db_schemas = {}
    /\ connection = FALSE
    /\ current_schema = <<"d", "e", "m", "o">>
    /\ formatted_queries = <<>>
    /\ data = NoData /\ show_dependencies = TRUE /\ show_peer = TRUE
    /\ G = EmptyGraph /\ graph_json = [nodes |-> <<>>, edges |-> <<>>]

dbFixed == <<cliVars, genVars, pc, idx, clock, prev, run, viewVars, scriptVars, dataVars,
             exportVars>>

\* connect: the connection is established, or the failure is logged
Connect ==
    /\ pc = "db"
    /\ ~connection
    /\ connection' \in BOOLEAN
    /\ UNCHANGED <<dbFixed, current_schema, formatted_queries>>

SetSchema ==
    /\ pc = "db"
    /\ \E schema_name \in SchemaArguments : current_schema' = set_schema(schema_name)
    /\ UNCHANGED <<dbFixed, connection, formatted_queries>>

\* execute_query: nothing is sent without a connection
ExecuteQuery ==
    /\ pc = "db"
    /\ Len(formatted_queries) < MaxQueries
    /\ \E query \in QueryTemplates :
          formatted_queries' =
              IF ~connection THEN formatted_queries
              ELSE Append(formatted_queries,
                          [query |-> query,
                           formatted_query |-> Replace(query, Placeholder, current_schema)])
    /\ UNCHANGED <<dbFixed, connection, current_schema>>

NextDatabase ==
    \/ Connect
    \/ SetSchema
    \/ ExecuteQuery

SpecDatabase == InitDatabase /\ [][NextDatabase]_vars

(***************************************************************************)
(* GraphBuilder.create_graph_data (graph.py).                              *)
(***************************************************************************)
dependency_types ==
    {"replicates_from", "fails_over_to", "consumes_api_from", "persists_to", "publishes_to",
     "subscribes_to", "proxied_by", "authenticates_via", "monitors"}

peer_types ==
    {"collaborates_with", "peers_with", "vm_guest_of", "load_balanced_by", "communicates_with"}

\* rows of data['components'], by component_id
GraphComponents ==
    [i \in 1..NumNodes |->
        [component_id |-> NodeTable[i].id, fqdn |-> NodeTable[i].name,
         component_type |-> "application", physical_location |-> NodeTable[i].location,
         ip |-> NodeTable[i].ip, vlan |-> NodeTable[i].vlan]]

\* rows data['relationships'] is drawn from
RelationshipRows ==
    { [component_id |-> 1, related_component_id |-> 2, relationship_type |-> "persists_to"],
      [component_id |-> 2, related_component_id |-> 1, relationship_type |-> "persists_to"],
      [component_id |-> 1, related_component_id |-> 2, relationship_type |-> "peers_with"],
      [component_id |-> 2, related_component_id |-> 3, relationship_type |-> "fails_over_to"],
      [component_id |-> 1, related_component_id |-> 1, relationship_type |-> "communicates_with"],
      [component_id |-> 3, related_component_id |-> 1, relationship_type |-> "hosted_on"] }

\* the node dictionary of one component row
create_node(comp) ==
    [id |-> Decimal(comp.component_id),
     label |-> Split(comp.fqdn, ".")[1] \o <<".">> \o comp.physical_location,
     name |-> comp.fqdn, type |-> comp.component_type, ip |-> comp.ip,
     location |-> comp.physical_location, vlan |-> comp.vlan, border |-> FALSE]

\* the dependency edge drawn from the related component to the component
create_dependency_edge_reversed(rel) ==
    [id |-> <<"dep", rel.component_id, rel.related_component_id>>,
     source |-> Decimal(rel.related_component_id), target |-> Decimal(rel.component_id),
     type |-> "dependency", label |-> rel.relationship_type]

create_dependency_edge(rel) ==
    [id |-> <<"dep", rel.component_id, rel.related_component_id>>,
     source |-> Decimal(rel.component_id), target |-> Decimal(rel.related_component_id),
     type |-> "dependency", label |-> rel.relationship_type]

create_peer_edge(rel) ==
    [id |-> <<"peer", rel.component_id, rel.related_component_id>>,
     source |-> Decimal(rel.component_id), target |-> Decimal(rel.related_component_id),
     type |-> "peer", label |-> rel.relationship_type]

RECURSIVE create_edges(_, _, _)
\* the loop over relationships_df.iterrows()
create_edges(rels, dependencies, peer) ==
    IF rels = <<>> THEN <<>>
    ELSE LET rel == Head(rels)
             edge == IF dependencies /\ rel.relationship_type \in dependency_types
                     THEN <<create_dependency_edge(rel)>>
                     ELSE IF peer /\ rel.relationship_type \in peer_types
                          THEN <<create_peer_edge(rel)>>
                          ELSE <<>>
         IN  edge \o create_edges(Tail(rels), dependencies, peer)

create_graph_data(d, dependencies, peer) ==
    [nodes |-> [i \in 1..Len(d.components) |-> create_node(d.components[i])],
     edges |-> create_edges(d.relationships, dependencies, peer)]

InitGraphData ==
    /\ GeneratorIdle
    /\ pc = "graph_data"
    /\ nodes = <<>> /\ edges = <<>> /\ search_term = <<>>
    /\ filtered_nodes = <<>> /\ filtered_edges = <<>>
    /\ components_df = <<>> /\ relationships_df = <<>>
    /\ filters = [search_term |-> <<>>, env_filter |-> {}, status_filter |-> {},
                  type_filter |-> {}]
    /\ all_visible_components = <<>> /\ filtered_relationships = <<>>
    /\ args = NoArgs /\ allowed_schemas = <<>> /\ response = ""
    /\ schemas_to_recreate = <<>> /\ sections = {} /\ executed = <<>> /\ db_schemas = {}
    /\ connection = FALSE /\ current_schema = <<"d", "e", "m", "o">> /\ formatted_queries = <<>>
    /\ \E rels \in UNION { [1..k -> RelationshipRows] : k \in 0..MaxEdges } :
          data = [components |-> GraphComponents, relationships |-> rels]
    /\ show_dependencies \in BOOLEAN
    /\ show_peer \in BOOLEAN
    /\ G = EmptyGraph /\ graph_json = [nodes |-> <<>>, edges |-> <<>>]

CreateGraphData ==
    /\ pc = "graph_data"
    /\ LET res == create_graph_data(data, show_dependencies, show_peer)
       IN  nodes' = res.nodes /\ edges' = res.edges
    /\ pc' = "graph_data_done"
    /\ UNCHANGED <<cliVars, genVars, idx, clock, prev, run, search_term, filtered_nodes,
                   filtered_edges, filterVars, restVars>>

SpecGraphData == InitGraphData /\ [][CreateGraphData]_vars

(***************************************************************************)
(* create_network_graph and export_graph_json (streamlit_app.py).  G is a  *)
(* networkx Graph: nodes in insertion order, and for each node its         *)
(* neighbours in insertion order with the attributes of the edge.          *)
(***************************************************************************)
\* rows of relationships_df handed to create_network_graph; component NumRows + 1 is
\* not among the visible components
TypedRelationshipLists ==
    UNION { [1..k -> [component_id : 1..(NumRows + 1), related_component_id : 1..(NumRows + 1),
                      relationship_type : {"persists_to", "fails_over_to"}]]
            : k \in 0..MaxRelationships }

HasNode(g, id) == \E i \in 1..Len(g.nodes) : g.nodes[i].id = id

\* G.add_node for a component row (component ids are unique)
add_node(g, comp) ==
    [nodes |-> Append(g.nodes, [id |-> comp.component_id, fqdn |-> comp.fqdn,
                                type |-> comp.component_type, app_code |-> comp.app_code]),
     adj |-> [id \in DOMAIN g.adj \cup {comp.component_id} |->
                 IF id \in DOMAIN g.adj THEN g.adj[id] ELSE <<>>]]

\* adj[u][v] = attributes: a new neighbour is appended, a known one has its
\* attributes overwritten in place
set_neighbour(nbrs, v, relationship) ==
    IF \E i \in 1..Len(nbrs) : nbrs[i].nbr = v
    THEN [i \in 1..Len(nbrs) |->
             IF nbrs[i].nbr = v THEN [nbr |-> v, relationship |-> relationship] ELSE nbrs[i]]
    ELSE Append(nbrs, [nbr |-> v, relationship |-> relationship])

\* G.add_edge(u, v, relationship=...) of an undirected Graph
add_edge(g, u, v, relationship) ==
    LET first == [g.adj EXCEPT ![u] = set_neighbour(@, v, relationship)]
    IN  [g EXCEPT !.adj = [first EXCEPT ![v] = set_neighbour(@, u, relationship)]]

RECURSIVE add_nodes(_, _)
add_nodes(g, df) == IF df = <<>> THEN g ELSE add_nodes(add_node(g, Head(df)), Tail(df))

RECURSIVE add_edges(_, _)
add_edges(g, rels) ==
    IF rels = <<>> THEN g
    ELSE LET rel == Head(rels)
         IN  add_edges(IF HasNode(g, rel.component_id) /\ HasNode(g, rel.related_component_id)
                       THEN add_edge(g, rel.component_id, rel.related_component_id,
                                     rel.relationship_type)
                       ELSE g,
                       Tail(rels))

\* the graph G of create_network_graph
create_network_graph(df, rels) == add_edges(add_nodes(EmptyGraph, df), rels)

RECURSIVE graph_edges(_, _)
\* G.edges(data=True): each node in turn reports its neighbours not yet seen
graph_edges(g, k) ==
    IF k > Len(g.nodes) THEN <<>>
    ELSE LET n == g.nodes[k].id
             seen == { g.nodes[i].id : i \in 1..(k - 1) }
             fresh == SelectSeq(g.adj[n], LAMBDA e : e.nbr \notin seen)
         IN  [i \in 1..Len(fresh) |->
                 [source |-> n, target |-> fresh[i].nbr,
                  relationship |-> fresh[i].relationship]]
             \o graph_edges(g, k + 1)

export_graph_json(g) == [nodes |-> g.nodes, edges |-> graph_edges(g, 1)]

InitExport ==
    /\ GeneratorIdle
    /\ pc = "network"
    /\ nodes = <<>> /\ edges = <<>> /\ search_term = <<>>
    /\ filtered_nodes = <<>> /\ filtered_edges = <<>>
    /\ components_df = <<>> /\ relationships_df = <<>>
    /\ filters = [search_term |-> <<>>, env_filter |-> {}, status_filter |-> {},
                  type_filter |-> {}]
    /\ all_visible_components = SubSeq(ComponentTable, 1, NumRows)
    /\ filtered_relationships \in TypedRelationshipLists
    /\ RestIdle

CreateNetworkGraph ==
    /\ pc = "network"
    /\ G' = create_network_graph(all_visible_components, filtered_relationships)
    /\ pc' = "network_done"
    /\ UNCHANGED <<cliVars, genVars, idx, clock, prev, run, viewVars, scriptVars, connVars,
                   dataVars, graph_json>>

ExportGraphJson ==
    /\ pc = "network_done"
    /\ graph_json' = export_graph_json(G)
    /\ pc' = "exported"
    /\ UNCHANGED <<cliVars, genVars, idx, clock, prev, run, viewVars, scriptVars, connVars,
                   dataVars, G>>

NextExport ==
    \/ CreateNetworkGraph
    \/ ExportGraphJson

SpecExport == InitExport /\ [][NextExport]_vars

(***************************************************************************)
(* Properties of the neighbourhood filter and of the dashboard filter.     *)
(***************************************************************************)
NodeIds(ns) == { ns[i].id : i \in 1..Len(ns) }

Matching == matched_ids(nodes, Lower(search_term))

\* joined to a node of matching by a single edge, in either direction
OneHop(matching, id) ==
    \E i \in 1..Len(edges) :
        \/ edges[i].source \in matching /\ edges[i].target = id
        \/ edges[i].target \in matching /\ edges[i].source = id

\* C1: called with a non-empty search term that matches at least one node,
\* apply_neighborhood_filter returns exactly the matching nodes and the nodes joined
\* to a matching node by a single edge in either direction; a node joined to the
\* matching nodes only through an intermediate node is not returned.
C1_OneHopNeighborhood ==
    (pc = "neighborhood_done" /\ search_term # <<>>) =>
        LET matching == Matching
        IN  matching # {} =>
              /\ NodeIds(filtered_nodes)
                    = { id \in NodeIds(nodes) : id \in matching \/ OneHop(matching, id) }
              /\ \A i \in 1..Len(filtered_nodes) :
                    \E j \in 1..Len(nodes) : nodes[j] = filtered_nodes[i]

\* C1 witness: a matching node, a neighbour of it that does not match and is returned,
\* and a node two edges away that is not returned
C1_Witness ==
    /\ pc = "neighborhood_done" /\ search_term # <<>>
    /\ LET matching == Matching
       IN  \E a \in matching, b, c \in NodeIds(nodes) \ matching :
              /\ b # c
              /\ \E i \in 1..Len(edges) : {edges[i].source, edges[i].target} = {a, b}
              /\ \E i \in 1..Len(edges) : {edges[i].source, edges[i].target} = {b, c}
              /\ ~OneHop(matching, c)
              /\ b \in NodeIds(filtered_nodes)
              /\ c \notin NodeIds(filtered_nodes)

RowIds(df) == { df[i].component_id : i \in 1..Len(df) }

\* C2 (as claimed): apply_filters returns every component that matches the search
\* term and the environment, status and type filters, also one that takes part in no
\* relationship; with no search term and no filter it returns every component.
C2_MatchingComponentsReturned ==
    pc = "filters_done" =>
        RowIds(filtered_components_of(components_df, filters))
            \subseteq RowIds(all_visible_components)

(***************************************************************************)
(* Properties of the demo data generator.                                  *)
(***************************************************************************)
Ids == 1..Len(components)
RelIds == 1..Len(relationships)

HasFqdn(id) == components[id].fqdn # None
IsDatabase(id) == HasFqdn(id) /\ Contains(<<"d", "b">>, components[id].fqdn)
IsPrimary(id) == IsDatabase(id) /\ Contains(<<"p", "r", "i">>, components[id].fqdn)
IsSecondary(id) == IsDatabase(id) /\ Contains(<<"s", "e", "c">>, components[id].fqdn)

IssueTexts == {SameDcFailoverText, CrossDcCacheIssueText, KafkaSameDcText,
               CircularChainText, CircularDeadlockText}

AfterHub == pc \in {"failover", "cache", "mq", "lb", "circular", "orphaned", "done"}
AfterCircular == pc \in {"orphaned", "done"}

\* C3 (as claimed): databases are created as primary/secondary pairs (db01pri, db02sec;
\* db03pri, db04sec; ...), and when generate_relationships has run, every primary
\* that has an FQDN and whose secondary has one is the source of a fails_over_to
\* relationship to that secondary, described as ISSUE (same-DC failover) when the two
\* are in the same location and as GOOD (cross-DC failover) otherwise.
C3_FailoverRecorded ==
    pc = "done" =>
        \A p \in Ids :
            (IsPrimary(p) /\ p + 1 \in Ids /\ IsSecondary(p + 1)) =>
                \E r \in RelIds :
                    /\ relationships[r].component_id = p
                    /\ relationships[r].related_component_id = p + 1
                    /\ relationships[r].relationship_type = "fails_over_to"
                    /\ relationships[r].description.text =
                          IF components[p].physical_location_id
                                = components[p + 1].physical_location_id
                          THEN SameDcFailoverText ELSE CrossDcFailoverText

\* C4 (as claimed): when generate_components has run, the number of components is the
\* advertised total of the scale: 50 for small, 200 for medium, 500 for large.
C4_AdvertisedTotal ==
    pc = "relationships" => Len(components) = scale_configs(scale).total_components

\* C5 (as claimed): with problem_ratio = 0.0, when generate_relationships has run,
\* problems_created is empty and no relationship description is marked HUB PATTERN
\* or ISSUE.
C5_PerfectArchitecture ==
    (pc = "done" /\ problem_ratio = 0) =>
        /\ problems_created = <<>>
        /\ \A r \in RelIds :
              relationships[r].description.text \notin (IssueTexts \cup {HubText})

\* C6: with pending_ratio = 0.0 every component created is GREEN, and with
\* pending_ratio = 1.0 every component created is YELLOW or RED, never GREEN.
C6_PendingRatioExtremes ==
    \A i \in Ids :
        /\ pending_ratio = 0 => components[i].record_quality_grade = "_PT_GREEN_RECORD_"
        /\ pending_ratio = 100 =>
              components[i].record_quality_grade \in {"_PT_YELLOW_RECORD_", "_PT_RED_RECORD_"}

\* C6 witness: a finished run with pending_ratio = 1.0 that created YELLOW and RED records
C6_Witness ==
    /\ pc = "done"
    /\ pending_ratio = 100
    /\ \E i \in Ids : components[i].record_quality_grade = "_PT_YELLOW_RECORD_"
    /\ \E i \in Ids : components[i].record_quality_grade = "_PT_RED_RECORD_"

HasPlaceholder(c) ==
    \/ c.ip = PendingIp
    \/ c.mac = PendingMac
    \/ c.app_code = PendingAppCode

OnlyPlaceholders(c) ==
    /\ c.ip = PendingIp
    /\ c.mac = PendingMac
    /\ c.app_code = PendingAppCode

\* a field still pending: no FQDN, or a placeholder (or default) value
HasPendingField(c) ==
    \/ c.fqdn = None
    \/ HasPlaceholder(c)
    \/ c.description.text = PendingText
    \/ c.vlan = 1
    \/ c.port = 1

\* C7 (as claimed): every GREEN component carries an FQDN and no placeholder value,
\* every RED component carries no FQDN and only placeholder values, and every YELLOW
\* component has at least one field still pending.
C7_GradeReflectsCompleteness ==
    \A i \in Ids :
        LET c == components[i]
        IN  /\ c.record_quality_grade = "_PT_GREEN_RECORD_" =>
                  c.fqdn # None /\ ~HasPlaceholder(c)
            /\ c.record_quality_grade = "_PT_RED_RECORD_" =>
                  c.fqdn = None /\ OnlyPlaceholders(c)
            /\ c.record_quality_grade = "_PT_YELLOW_RECORD_" => HasPendingField(c)

HubRels == { r \in RelIds : relationships[r].description.text = HubText }
HubApps == { relationships[r].component_id : r \in HubRels }
SeqToSet(q) == { q[i] : i \in 1..Len(q) }

\* the k distinct applications, the single hub and the bounds on k of C9
HubShape(hub) ==
    LET k == Cardinality(HubRels)
        concentration == concentration_configs(app_concentration)
    IN  /\ Cardinality(HubApps) = k
        /\ HubApps \subseteq SeqToSet(groups.apps)
        /\ \A r \in HubRels :
              /\ relationships[r].related_component_id = hub
              /\ relationships[r].relationship_type = "persists_to"
        /\ \/ k \in concentration.min..concentration.max
           \/ k = Len(groups.apps) /\ Len(groups.apps) < concentration.max
        /\ k >= 1

FirstPrimary(dbs) ==
    dbs[CHOOSE i \in 1..Len(dbs) : IsPrimary(dbs[i]) /\ \A j \in 1..(i - 1) : ~IsPrimary(dbs[j])]

\* C9 (as claimed): when a database and an application are available, the hub pattern
\* links k distinct applications to the first primary database by persists_to
\* relationships marked HUB PATTERN, k within the app-concentration range or equal
\* to the number of applications when that is smaller.
C9_HubIsFirstPrimary ==
    (AfterHub /\ groups.dbs # <<>> /\ groups.apps # <<>>) =>
        /\ \E i \in 1..Len(groups.dbs) : IsPrimary(groups.dbs[i])
        /\ HubShape(FirstPrimary(groups.dbs))

\* C9 (amended): as C9, the hub being the first available primary database, or the
\* first available database when no primary is available.
C9_HubPattern ==
    (AfterHub /\ groups.dbs # <<>> /\ groups.apps # <<>>) =>
        HubShape(IF \E i \in 1..Len(groups.dbs) : IsPrimary(groups.dbs[i])
                 THEN FirstPrimary(groups.dbs)
                 ELSE groups.dbs[1])

\* C9 witness: the hub is a primary that is not the first database available, and
\* fewer applications are linked than are available
C9_Witness ==
    /\ AfterHub /\ groups.dbs # <<>> /\ groups.apps # <<>>
    /\ ~IsPrimary(groups.dbs[1])
    /\ \E i \in 1..Len(groups.dbs) : IsPrimary(groups.dbs[i])
    /\ Cardinality(HubRels) >= 3
    /\ Cardinality(HubRels) < Len(groups.apps)

CycleRels == { r \in RelIds : relationships[r].relationship_type = "consumes_api_from" }

\* three relationships A->B, B->C, C->A over three distinct applications of apps
IsThreeCycle(apps) ==
    \E a, b, c \in SeqToSet(apps) :
        /\ a # b /\ b # c /\ a # c
        /\ Cardinality(CycleRels) = 3
        /\ { <<relationships[r].component_id, relationships[r].related_component_id>> :
               r \in CycleRels } = { <<a, b>>, <<b, c>>, <<c, a>> }

IsApplication(id) == components[id].component_type = "application"

\* C10 (as claimed): when at least three applications exist, the circular dependency
\* is injected always at problem_ratio 1.0 and never at 0.0, and when injected it is
\* three consumes_api_from relationships A->B, B->C, C->A over three distinct
\* applications.
C10_CircularAsClaimed ==
    AfterCircular =>
        /\ (Cardinality({ i \in Ids : IsApplication(i) }) >= 3 /\ problem_ratio = 100)
              => CycleRels # {}
        /\ problem_ratio = 0 => CycleRels = {}
        /\ CycleRels # {} => IsThreeCycle(groups.apps)

\* C10 (amended): as C10, for at least three applications on the list apps of
\* generate_relationships (the components whose FQDN is known and contains app,
\* portal, mobile, api or service).
C10_Circular ==
    /\ (pc # "main" /\ ~AfterCircular) => CycleRels = {}
    /\ AfterCircular =>
        /\ (Len(groups.apps) >= 3 /\ problem_ratio = 100) => CycleRels # {}
        /\ (Len(groups.apps) < 3 \/ problem_ratio = 0) => CycleRels = {}
        /\ CycleRels # {} => IsThreeCycle(groups.apps)

\* C10 witness: a run with problem_ratio strictly between 0 and 1 that injected the cycle
C10_Witness ==
    /\ pc = "done" /\ problem_ratio = 30
    /\ CycleRels # {}
    /\ IsThreeCycle(groups.apps)

\* the source or the target of a generated relationship
HasRelationship(id) ==
    \E r \in RelIds :
        \/ relationships[r].component_id = id
        \/ relationships[r].related_component_id = id

\* C11: when generate_relationships has completed, the description of a component
\* carries the ORPHANED: prefix if and only if the component is neither the source
\* nor the target of a generated relationship.
C11_OrphanedIffNoRelationship ==
    pc = "done" =>
        \A i \in Ids :
            components[i].description.orphaned <=> ~HasRelationship(components[i].component_id)

\* C11 witness: a finished run with an orphaned component, and a component that is
\* only ever the target of relationships and is not marked
C11_Witness ==
    /\ pc = "done"
    /\ \E i \in Ids : components[i].description.orphaned
    /\ \E i \in Ids :
          /\ ~components[i].description.orphaned
          /\ \A r \in RelIds : relationships[r].component_id # i
          /\ \E r \in RelIds : relationships[r].related_component_id = i

(***************************************************************************)
(* Properties of recreate_schemas_refresh_users.py.                        *)
(***************************************************************************)
ChangingSql == {"DROP SCHEMA", "SCHEMA SECTION", "PERMISSIONS"}
Changing == { i \in 1..Len(executed) : executed[i].sql \in ChangingSql }
Dropped == { executed[i].schema : i \in { j \in 1..Len(executed) : executed[j].sql = "DROP SCHEMA" } }

\* C12: recreate_schemas_refresh_users executes no DROP SCHEMA, schema-creation or
\* permission SQL unless --no-dry-run was given and the operator answered the prompt
\* with exactly Yes or yes; in a dry run, or after any other answer, the schemas of
\* the database are left as they were.
C12_NoChangeWithoutConfirmation ==
    (~args.no_dry_run \/ response \notin {"Yes", "yes"}) =>
        /\ Changing = {}
        /\ db_schemas = SchemaNames

\* C12 witness: a confirmed run that dropped, recreated and refreshed permissions, the
\* answer being the lower-case yes
C12_Witness ==
    /\ pc = "rs_done" /\ args.no_dry_run /\ response = "yes"
    /\ \E i, j, k \in Changing :
          /\ executed[i].sql = "DROP SCHEMA"
          /\ executed[j].sql = "SCHEMA SECTION"
          /\ executed[k].sql = "PERMISSIONS"

\* C13: recreate_schemas_refresh_users drops only schemas that were requested on the
\* command line and are listed in ALLOWED_SCHEMA_RECREATE; when a requested schema is
\* not in the allowed list nothing is dropped (nothing is executed at all); and the
\* statements executed are table counts, DROP SCHEMA, the schema sections and the
\* permissions section of the SQL file, never a drop of the database or of a user.
C13_OnlyAllowedSchemasDropped ==
    LET requested_set == StrippedSet(args.recreate_schemas)
        allowed_set == StrippedSet(allowed_schemas)
    IN  /\ Dropped \subseteq (requested_set \cap allowed_set)
        /\ ~(requested_set \subseteq allowed_set) => executed = <<>>
        /\ \A i \in 1..Len(executed) :
              executed[i].sql \in (ChangingSql \cup {"SELECT COUNT"})

\* C13 witness: two schemas requested with a blank after the comma, both allowed and
\* both dropped, while a third schema of the database is left alone
C13_Witness ==
    /\ pc = "rs_done"
    /\ args.recreate_schemas = <<"d", "e", "m", "o", ",", " ", "l", "i", "v", "e", "_", "m", "a", "s", "k", "e", "d">>
    /\ Cardinality(Dropped) = 2
    /\ Dropped # SchemaNames

(***************************************************************************)
(* Properties of DatabaseConnection.                                       *)
(***************************************************************************)
TwoSchemas == { <<"d", "e", "m", "o">>, <<"p", "u", "b", "l", "i", "c">> }

\* C14: DatabaseConnection.current_schema is always demo or public (it starts as demo
\* and set_schema with any other name stores demo), and in every query execute_query
\* sent, each {{SCHEMA}} placeholder of the template was replaced by one of these two
\* names.
C14_SchemaIsDemoOrPublic ==
    /\ current_schema \in TwoSchemas
    /\ \A i \in 1..Len(formatted_queries) :
          /\ ~Contains(Placeholder, formatted_queries[i].formatted_query)
          /\ \E name \in TwoSchemas :
                formatted_queries[i].formatted_query
                    = Replace(formatted_queries[i].query, Placeholder, name)

\* C14 witness: a query with two placeholders sent on the public schema, and a later
\* query sent on demo after set_schema was called again
C14_Witness ==
    /\ Len(formatted_queries) = 2
    /\ formatted_queries[1].formatted_query = <<"p", "u", "b", "l", "i", "c", ".", "a", ",", "p", "u", "b", "l", "i", "c", ".", "b">>
    /\ formatted_queries[2].formatted_query = <<"d", "e", "m", "o", ".", "a">>

(***************************************************************************)
(* Properties of create_graph_data.                                        *)
(***************************************************************************)
\* edge i is drawn for relationship row rel, from component_id to related_component_id
EdgeOf(edge, rel) ==
    /\ edge.source = Decimal(rel.component_id)
    /\ edge.target = Decimal(rel.related_component_id)
    /\ edge.label = rel.relationship_type

OneNodePerComponent ==
    /\ Len(nodes) = Len(data.components)
    /\ \A i \in 1..Len(nodes) : nodes[i].id = Decimal(data.components[i].component_id)

Drawn(rel) ==
    \/ show_dependencies /\ rel.relationship_type \in dependency_types
    \/ show_peer /\ rel.relationship_type \in peer_types

Visible(id) == \E i \in 1..Len(all_visible_components) : all_visible_components[i].component_id = id

\* C16 (as claimed): for every relationship whose two endpoints are visible components
\* the export of export_graph_json holds exactly one edge with source = component_id,
\* target = related_component_id and relationship = its type, also when several
\* relationships link the same pair of components.
C16_RelationshipsPreserved ==
    pc = "exported" =>
        \A r \in 1..Len(filtered_relationships) :
            LET rel == filtered_relationships[r]
            IN  (Visible(rel.component_id) /\ Visible(rel.related_component_id)) =>
                    Cardinality({ i \in 1..Len(graph_json.edges) :
                                    /\ graph_json.edges[i].source = rel.component_id
                                    /\ graph_json.edges[i].target = rel.related_component_id
                                    /\ graph_json.edges[i].relationship = rel.relationship_type })
                        = 1

====
